---- MODULE Spec2Model ----
(***************************************************************************)
(* SearchScout: the local cache layer (CacheService over localStorage)     *)
(* and the competitor keyword analysis that reads and writes through it.   *)
(*                                                                         *)
(* Instants are counted in clock ticks; TicksPerDay ticks make the         *)
(* 24*60*60*1000 ms of one day, so every instant of the model is a         *)
(* multiple of half a day.                                                 *)
(***************************************************************************)
EXTENDS Integers, Sequences, FiniteSets, TLC

VARIABLES
    store,      \* localStorage: storage key -> stored string, or Absent
    quota,      \* how many items localStorage has room for
    now,        \* Date.now(), in ticks
    last,       \* the last CacheService call: its arguments and its outcome
    calls,      \* the analyses that wait for answers to their HTTP requests
    ev,         \* the last step of an analysis: what it did and what it delivered
    probe       \* a function of the program applied to drawn arguments

vars == <<store, quota, now, last, calls, ev, probe>>

---------------------------------------------------------------------------
(* Bounds of the model *)

MaxTicks == 3
StorageQuota == 2
AnalysisQuota == 3
MaxAnalysisTicks == 1
MaxAge == 4
MaxSources == 2
MaxKeywords == 2
MaxCalls == 2

---------------------------------------------------------------------------
(* Program constants *)

CACHE_PREFIX == "searchscout_cache_"
CONFIG_KEY == "searchscout_cache_config"
DefaultExpirationDays == 90
TicksPerDay == 2

\* StorageService's key for the API credentials: outside the cache namespace.
API_CREDS_KEY == "searchscout_api_credentials"

\* The text keys callers pass to the cache.
Keys == {"config", "a"}

Slots == {CACHE_PREFIX \o k : k \in Keys} \cup {CONFIG_KEY, API_CREDS_KEY}

---------------------------------------------------------------------------
(* JavaScript values *)

NullV == [tag |-> "null"]
UndefinedV == [tag |-> "undefined"]
\* An object that refers to itself: JSON.stringify throws on it.
CircularV == [tag |-> "circular"]
Str(s) == [tag |-> "str", s |-> s]
Num(n) == [tag |-> "num", n |-> n]
ConfigV(d) == [tag |-> "config", expirationDays |-> d]
MetaV(t, a) == [tag |-> "meta", timestamp |-> t, ageInDays |-> a]

\* if (x): the values of the model that JavaScript takes as false.
Truthy(v) == v.tag \notin {"null", "undefined"}

---------------------------------------------------------------------------
(* Strings held by localStorage.  A string is plain text or the output of *)
(* LZString.compressToUTF16; its text is the JSON text of a value, or text *)
(* that is no JSON at all.                                                 *)

Absent == [codec |-> "none"]

EntryJ(k, d, t, e) == [t |-> "entry", key |-> k, data |-> d, timestamp |-> t, expiresAt |-> e]
\* JSON text of an object that is no CacheEntry: it has no key, timestamp or
\* expiresAt, and data only when d is not undefined.
ObjectJ(d) == [t |-> "object", data |-> d]
NullJ == [t |-> "null"]
ConfigJ(d) == [t |-> "config", expirationDays |-> d]

JsonText(j) == [codec |-> "plain", kind |-> "json", val |-> j]
NotJsonText == [codec |-> "plain", kind |-> "text", val |-> [t |-> "text"]]

compressToUTF16(s) == [codec |-> "utf16", kind |-> s.kind, val |-> s.val]

\* null for a string that compressToUTF16 did not produce.
decompressFromUTF16(item) ==
    IF item.codec = "utf16"
    THEN [ok |-> TRUE, s |-> [codec |-> "plain", kind |-> item.kind, val |-> item.val]]
    ELSE [ok |-> FALSE, s |-> Absent]

\* JSON.parse: throws a SyntaxError on anything but plain JSON text.
JSON_parse(s) ==
    IF s.codec = "plain" /\ s.kind = "json"
    THEN [raised |-> FALSE, val |-> s.val]
    ELSE [raised |-> TRUE, val |-> NullJ]

\* JSON.stringify of a cache entry: throws a TypeError on a circular value.
JSON_stringify(j) ==
    IF j.t = "entry" /\ j.data = CircularV
    THEN [raised |-> TRUE, s |-> Absent]
    ELSE [raised |-> FALSE, s |-> JsonText(j)]

---------------------------------------------------------------------------
(* localStorage *)

Present(st) == {s \in DOMAIN st : st[s] # Absent}

getItem(st, slot) == st[slot]

\* A value that takes the room of two ordinary items once it is stored.
LargeData == Str("largeValue")

\* The room an item takes of the quota: one unit, two for an entry of LargeData.
Room(item) ==
    IF item = Absent THEN 0
    ELSE IF item.val.t = "entry" /\ item.val.data = LargeData THEN 2
    ELSE 1

RECURSIVE RoomOf(_, _)
RoomOf(st, slots) ==
    IF slots = {} THEN 0
    ELSE LET s == CHOOSE x \in slots : TRUE
         IN Room(st[s]) + RoomOf(st, slots \ {s})

\* localStorage.setItem: throws QuotaExceededError, and leaves the storage as it
\* was, when the items would take more room than the quota with the new item in
\* the place of the old one.
setItem(st, q, slot, item) ==
    IF RoomOf(st, DOMAIN st \ {slot}) + Room(item) > q
    THEN [raised |-> TRUE, st |-> st]
    ELSE [raised |-> FALSE, st |-> [st EXCEPT ![slot] = item]]

removeItem(st, slot) == [st EXCEPT ![slot] = Absent]

RECURSIVE removeAll(_, _)
removeAll(st, slots) ==
    IF slots = {} THEN st
    ELSE LET s == CHOOSE x \in slots : TRUE
         IN removeAll(removeItem(st, s), slots \ {s})

startsWith(s, p) == Len(s) >= Len(p) /\ SubSeq(s, 1, Len(p)) = p

---------------------------------------------------------------------------
(* CacheService.  Every operation gives the store it leaves, the value it  *)
(* returns, whether it raised to its caller, whether it ran the quota      *)
(* eviction, whether it wrote an entry, and the line it logged.            *)

Res(st, ret, raised, evicted, wrote, log) ==
    [st |-> st, ret |-> ret, raised |-> raised, evicted |-> evicted, wrote |-> wrote,
     log |-> log]

Raise(st) == Res(st, UndefinedV, TRUE, FALSE, FALSE, "raised")

getConfig(st) ==
    LET config == getItem(st, CONFIG_KEY)
    IN IF config # Absent
       THEN LET p == JSON_parse(config)
            IN IF p.raised THEN Raise(st)
               ELSE Res(st, ConfigV(p.val.expirationDays), FALSE, FALSE, FALSE, "")
       ELSE Res(st, ConfigV(DefaultExpirationDays), FALSE, FALSE, FALSE, "")

getAgeInDays(t, timestamp) == (t - timestamp) \div TicksPerDay

remove(st, key) ==
    Res(removeItem(st, CACHE_PREFIX \o key), UndefinedV, FALSE, FALSE, FALSE, "Removed from cache")

\* The items handleQuotaExceeded collects: namespaced, not the config key,
\* decompressible and parseable to something that has fields.
EvictionEntries(st) ==
    {s \in DOMAIN st :
        /\ startsWith(s, CACHE_PREFIX) /\ s # CONFIG_KEY
        /\ getItem(st, s) # Absent
        /\ LET d == decompressFromUTF16(getItem(st, s))
           IN d.ok /\ ~JSON_parse(d.s).raised /\ JSON_parse(d.s).val.t # "null"}

ParsedItem(st, s) == JSON_parse(decompressFromUTF16(getItem(st, s)).s).val

\* The orders of the slots of C: all of them, or those ascending by timestamp.
RECURSIVE Orders(_, _, _)
Orders(st, C, ascending) ==
    IF C = {} THEN {<<>>}
    ELSE LET first == IF ascending
                      THEN {s \in C : \A o \in C :
                               ParsedItem(st, s).timestamp <= ParsedItem(st, o).timestamp}
                      ELSE C
         IN UNION {{<<s>> \o rest : rest \in Orders(st, C \ {s}, ascending)} : s \in first}

\* What entries.sort((a, b) => a.timestamp - b.timestamp) can give.  The
\* order localStorage.key(i) lists the keys in is the browser's, so entries
\* of equal timestamp may come out either way; an entry without a timestamp
\* makes the comparator inconsistent and the order implementation-defined.
SortOutcomes(st) ==
    LET C == EvictionEntries(st)
    IN IF \E s \in C : ParsedItem(st, s).t # "entry"
       THEN Orders(st, C, FALSE)
       ELSE Orders(st, C, TRUE)

handleQuotaExceeded_Floor(st, sorted) ==
    LET toRemove == Len(sorted) \div 4
    IN removeAll(st, {sorted[i] : i \in 1..toRemove})

handleQuotaExceeded(st, sorted) ==
    LET toRemove == (Len(sorted) + 3) \div 4
    IN removeAll(st, {sorted[i] : i \in 1..toRemove})

writeDisabled_Negative(days) == days < 0

\* if (days === 0) of save
writeDisabled(days) == days = 0

readDisabled_Negative(config) == config.expirationDays < 0

\* if (config.expirationDays === 0) of get
readDisabled(config) == config.expirationDays = 0

isExpired_Reversed(entry, t) == entry.expiresAt > t

\* if (entry.expiresAt < Date.now()) of get
isExpired(entry, t) == entry.expiresAt < t

save_EvictThenWrite(st, q, t, key, data, ttl, sorted) ==
    LET config == getConfig(st)
    IN IF config.raised THEN Raise(st)
       ELSE
       LET days == IF ttl = {} THEN config.ret.expirationDays ELSE CHOOSE d \in ttl : TRUE
       IN IF writeDisabled(days)
          THEN Res(st, UndefinedV, FALSE, FALSE, FALSE, "Cache is disabled, not saving")
          ELSE
          LET cacheKey == CACHE_PREFIX \o key
              entry == EntryJ(key, data, t, t + days * TicksPerDay)
              json == JSON_stringify(entry)
              evicted == handleQuotaExceeded(st, sorted)
          IN IF json.raised
             THEN Res(evicted, UndefinedV, FALSE, TRUE, FALSE, "Failed to cache data")
             ELSE LET w == setItem(st, q, cacheKey, compressToUTF16(json.s))
                  IN IF w.raised
                     THEN Res([evicted EXCEPT ![cacheKey] = compressToUTF16(json.s)],
                              UndefinedV, FALSE, TRUE, FALSE, "Failed to cache data")
                     ELSE Res(w.st, UndefinedV, FALSE, FALSE, TRUE, "Cached data")

save_Retry(st, q, t, key, data, ttl, sorted) ==
    LET config == getConfig(st)
    IN IF config.raised THEN Raise(st)
       ELSE
       LET days == IF ttl = {} THEN config.ret.expirationDays ELSE CHOOSE d \in ttl : TRUE
       IN IF writeDisabled(days)
          THEN Res(st, UndefinedV, FALSE, FALSE, FALSE, "Cache is disabled, not saving")
          ELSE
          LET cacheKey == CACHE_PREFIX \o key
              entry == EntryJ(key, data, t, t + days * TicksPerDay)
              json == JSON_stringify(entry)
              evicted == handleQuotaExceeded(st, sorted)
              failed == Res(evicted, UndefinedV, FALSE, TRUE, FALSE, "Failed to cache data")
          IN IF json.raised THEN failed
             ELSE LET w == setItem(st, q, cacheKey, compressToUTF16(json.s))
                      again == setItem(evicted, q, cacheKey, compressToUTF16(json.s))
                  IN IF ~w.raised THEN Res(w.st, UndefinedV, FALSE, FALSE, TRUE, "Cached data")
                     ELSE IF again.raised THEN failed
                     ELSE Res(again.st, UndefinedV, FALSE, TRUE, TRUE, "Cached data")

\* ttl is {} when the caller gives no expirationDays, {d} when it gives d.
save(st, q, t, key, data, ttl, sorted) ==
    LET config == getConfig(st)
    IN IF config.raised THEN Raise(st)
       ELSE
       LET days == IF ttl = {} THEN config.ret.expirationDays ELSE CHOOSE d \in ttl : TRUE
       IN IF writeDisabled(days)
          THEN Res(st, UndefinedV, FALSE, FALSE, FALSE, "Cache is disabled, not saving")
          ELSE
          LET cacheKey == CACHE_PREFIX \o key
              entry == EntryJ(key, data, t, t + days * TicksPerDay)
              json == JSON_stringify(entry)
              failed == Res(handleQuotaExceeded(st, sorted), UndefinedV, FALSE, TRUE, FALSE,
                            "Failed to cache data")
          IN IF json.raised THEN failed
             ELSE LET w == setItem(st, q, cacheKey, compressToUTF16(json.s))
                  IN IF w.raised THEN failed
                     ELSE Res(w.st, UndefinedV, FALSE, FALSE, TRUE, "Cached data")

get(st, t, key) ==
    LET config == getConfig(st)
    IN IF config.raised THEN Raise(st)
       ELSE IF readDisabled(config.ret)
       THEN Res(st, NullV, FALSE, FALSE, FALSE, "Cache is disabled, not retrieving")
       ELSE
       LET item == getItem(st, CACHE_PREFIX \o key)
           evict(log) == Res(remove(st, key).st, NullV, FALSE, FALSE, FALSE, log)
       IN IF item = Absent THEN Res(st, NullV, FALSE, FALSE, FALSE, "Cache miss")
          ELSE
          LET d == decompressFromUTF16(item)
          IN IF ~d.ok THEN evict("Cache decompression failed")
             ELSE
             LET p == JSON_parse(d.s)
             IN IF p.raised \/ p.val.t = "null" THEN evict("Failed to parse cache entry")
                ELSE IF p.val.t = "entry"
                THEN IF isExpired(p.val, t) THEN evict("Cache expired")
                     ELSE Res(st, p.val.data, FALSE, FALSE, FALSE, "Cache hit")
                ELSE Res(st, p.val.data, FALSE, FALSE, FALSE, "Cache hit")

clearAll_ConfigToo(st) ==
    Res(removeAll(st, {s \in Present(st) : startsWith(s, CACHE_PREFIX)}),
        UndefinedV, FALSE, FALSE, FALSE, "Cleared all cache entries")

clearAll(st) ==
    Res(removeAll(st, {s \in Present(st) : startsWith(s, CACHE_PREFIX) /\ s # CONFIG_KEY}),
        UndefinedV, FALSE, FALSE, FALSE, "Cleared all cache entries")

getMetadata_Expiring(st, t, key) ==
    LET item == getItem(st, CACHE_PREFIX \o key)
        none == Res(st, NullV, FALSE, FALSE, FALSE, "")
    IN IF item = Absent THEN none
       ELSE
       LET d == decompressFromUTF16(item)
       IN IF ~d.ok THEN none
          ELSE
          LET p == JSON_parse(d.s)
          IN IF p.raised \/ p.val.t = "null" THEN none
             ELSE IF p.val.t = "entry"
             THEN IF isExpired(p.val, t)
                  THEN Res(remove(st, key).st, NullV, FALSE, FALSE, FALSE, "")
                  ELSE Res(st, MetaV(Num(p.val.timestamp),
                                     Num(getAgeInDays(t, p.val.timestamp))),
                           FALSE, FALSE, FALSE, "")
             ELSE Res(st, MetaV(UndefinedV, [tag |-> "NaN"]), FALSE, FALSE, FALSE, "")

getMetadata(st, t, key) ==
    LET item == getItem(st, CACHE_PREFIX \o key)
        none == Res(st, NullV, FALSE, FALSE, FALSE, "")
    IN IF item = Absent THEN none
       ELSE
       LET d == decompressFromUTF16(item)
       IN IF ~d.ok THEN none
          ELSE
          LET p == JSON_parse(d.s)
          IN IF p.raised \/ p.val.t = "null" THEN none
             ELSE IF p.val.t = "entry"
             THEN Res(st, MetaV(Num(p.val.timestamp), Num(getAgeInDays(t, p.val.timestamp))),
                      FALSE, FALSE, FALSE, "")
             ELSE Res(st, MetaV(UndefinedV, [tag |-> "NaN"]), FALSE, FALSE, FALSE, "")

setConfig(st, q, days) ==
    LET w == setItem(st, q, CONFIG_KEY, JsonText(ConfigJ(days)))
    IN IF w.raised THEN Raise(st)
       ELSE Res(w.st, UndefinedV, FALSE, FALSE, FALSE, "Cache config updated")

\* value.length, in units: every stored string of the model is non-empty.
StringLength(item) == Len(item.codec)

RECURSIVE SumSizes(_, _)
SumSizes(st, slots) ==
    IF slots = {} THEN 0
    ELSE LET s == CHOOSE x \in slots : TRUE
         IN Len(s) + StringLength(getItem(st, s)) + SumSizes(st, slots \ {s})

getCacheSize(st) ==
    Res(st, Num(SumSizes(st, {s \in Present(st) : startsWith(s, CACHE_PREFIX)})),
        FALSE, FALSE, FALSE, "")

---------------------------------------------------------------------------
(* CompetitorAnalysisService: the aggregation.  The Map of the code is a   *)
(* sequence of (key, value) pairs in insertion order.                      *)

KW(k, v, d, p) ==
    [keyword |-> k, searchVolume |-> v, difficulty |-> d, cpc |-> UndefinedV,
     position |-> p, etv |-> UndefinedV]

\* String.prototype.toLowerCase on the keywords of the model.
toLowerCase(s) ==
    CASE s = "SEO Tools" -> "seo tools"
      [] s = "Keyword Research" -> "keyword research"
      [] OTHER -> s

MapHas_Never(m, k) == FALSE

MapHas(m, k) == \E i \in 1..Len(m) : m[i].k = k
MapIndex(m, k) == CHOOSE i \in 1..Len(m) : m[i].k = k
MapGet(m, k) == m[MapIndex(m, k)].v
MapSet(m, k, v) ==
    IF MapHas(m, k) THEN [m EXCEPT ![MapIndex(m, k)] = [k |-> k, v |-> v]]
    ELSE Append(m, [k |-> k, v |-> v])

RankingV(p, etv) == [tag |-> "ranking", position |-> p, etv |-> etv]
CompetitorRanking(domain, keyword) ==
    [domain |-> domain, position |-> keyword.position, etv |-> keyword.etv]

RECURSIVE addUserKeywords(_, _)
addUserKeywords(m, userKeywords) ==
    IF userKeywords = <<>> THEN m
    ELSE LET keyword == Head(userKeywords)
         IN addUserKeywords(
                MapSet(m, toLowerCase(keyword.keyword),
                    [keyword |-> keyword.keyword,
                     searchVolume |-> keyword.searchVolume,
                     difficulty |-> keyword.difficulty,
                     cpc |-> keyword.cpc,
                     userRanking |-> RankingV(keyword.position, keyword.etv),
                     competitorRankings |-> <<>>,
                     competitorCount |-> 0,
                     isOpportunity |-> FALSE,
                     opportunityScore |-> UndefinedV]),
                Tail(userKeywords))

addCompetitorKeyword_NoIncrement(m, domain, keyword) ==
    LET key == toLowerCase(keyword.keyword)
    IN IF MapHas(m, key)
       THEN MapSet(m, key,
                [MapGet(m, key) EXCEPT
                   !.competitorRankings = Append(@, CompetitorRanking(domain, keyword))])
       ELSE MapSet(m, key,
                [keyword |-> keyword.keyword,
                 searchVolume |-> keyword.searchVolume,
                 difficulty |-> keyword.difficulty,
                 cpc |-> keyword.cpc,
                 userRanking |-> NullV,
                 competitorRankings |-> <<CompetitorRanking(domain, keyword)>>,
                 competitorCount |-> 1,
                 isOpportunity |-> TRUE,
                 opportunityScore |-> UndefinedV])

addCompetitorKeyword_AlwaysOpportunity(m, domain, keyword) ==
    LET key == toLowerCase(keyword.keyword)
        has == MapHas(m, key)
    IN MapSet(m, key,
           [keyword |-> keyword.keyword,
            searchVolume |-> keyword.searchVolume,
            difficulty |-> keyword.difficulty,
            cpc |-> keyword.cpc,
            userRanking |-> IF has THEN MapGet(m, key).userRanking ELSE NullV,
            competitorRankings |->
                (IF has THEN MapGet(m, key).competitorRankings ELSE <<>>)
                    \o <<CompetitorRanking(domain, keyword)>>,
            competitorCount |-> (IF has THEN MapGet(m, key).competitorCount ELSE 0) + 1,
            isOpportunity |-> TRUE,
            opportunityScore |-> UndefinedV])

addCompetitorKeyword(m, domain, keyword) ==
    LET key == toLowerCase(keyword.keyword)
    IN IF MapHas(m, key)
       THEN LET existing == MapGet(m, key)
            IN MapSet(m, key,
                   [existing EXCEPT
                      !.competitorRankings = Append(@, CompetitorRanking(domain, keyword)),
                      !.competitorCount = @ + 1])
       ELSE MapSet(m, key,
                [keyword |-> keyword.keyword,
                 searchVolume |-> keyword.searchVolume,
                 difficulty |-> keyword.difficulty,
                 cpc |-> keyword.cpc,
                 userRanking |-> NullV,
                 competitorRankings |-> <<CompetitorRanking(domain, keyword)>>,
                 competitorCount |-> 1,
                 isOpportunity |-> TRUE,
                 opportunityScore |-> UndefinedV])

RECURSIVE addCompetitorKeywords(_, _, _)
addCompetitorKeywords(m, domain, keywords) ==
    IF keywords = <<>> THEN m
    ELSE addCompetitorKeywords(addCompetitorKeyword(m, domain, Head(keywords)),
                               domain, Tail(keywords))

RECURSIVE addCompetitorData(_, _)
addCompetitorData(m, competitorData) ==
    IF competitorData = <<>> THEN m
    ELSE addCompetitorData(
             addCompetitorKeywords(m, Head(competitorData).domain, Head(competitorData).keywords),
             Tail(competitorData))

Min(a, b) == IF a <= b THEN a ELSE b

calculateOpportunityScore_FirstCount(keyword) ==
    LET maxVolume == 100000
        normalizedVolume == Min(keyword.searchVolume * 100, 100 * maxVolume)
        invertedDifficulty == (100 - keyword.difficulty) * maxVolume
        competitorGapScore == Min(1 * 20, 100) * maxVolume
        score == 4 * normalizedVolume + 4 * invertedDifficulty + 2 * competitorGapScore
    IN (2 * score + 10 * maxVolume) \div (20 * maxVolume)

calculateOpportunityScore_NoCap(keyword) ==
    LET maxVolume == 100000
        score == 4 * keyword.searchVolume * 100
                 + 4 * (100 - keyword.difficulty) * maxVolume
                 + 2 * keyword.competitorCount * 20 * maxVolume
    IN (2 * score + 10 * maxVolume) \div (20 * maxVolume)

\* Math.round(0.4 * min(volume / 100000 * 100, 100) + 0.4 * (100 - difficulty)
\*            + 0.2 * min(count / 5 * 100, 100)), in ten-thousandths.
calculateOpportunityScore(keyword) ==
    LET maxVolume == 100000
        normalizedVolume == Min(keyword.searchVolume * 100, 100 * maxVolume)
        invertedDifficulty == (100 - keyword.difficulty) * maxVolume
        competitorGapScore == Min(keyword.competitorCount * 20, 100) * maxVolume
        score == 4 * normalizedVolume + 4 * invertedDifficulty + 2 * competitorGapScore
    IN (2 * score + 10 * maxVolume) \div (20 * maxVolume)

scoreOrZero(k) == IF k.opportunityScore = UndefinedV THEN 0 ELSE k.opportunityScore.n

\* Array.prototype.sort with (a, b) => (b.opportunityScore || 0) - (a.opportunityScore || 0):
\* a stable sort, one element inserted after the other.
RECURSIVE insertByScore_BeforeEqual(_, _)
insertByScore_BeforeEqual(sorted, k) ==
    IF sorted = <<>> THEN <<k>>
    ELSE IF scoreOrZero(Head(sorted)) <= scoreOrZero(k) THEN <<k>> \o sorted
    ELSE <<Head(sorted)>> \o insertByScore_BeforeEqual(Tail(sorted), k)

RECURSIVE insertByScore(_, _)
insertByScore(sorted, k) ==
    IF sorted = <<>> THEN <<k>>
    ELSE IF scoreOrZero(Head(sorted)) < scoreOrZero(k) THEN <<k>> \o sorted
    ELSE <<Head(sorted)>> \o insertByScore(Tail(sorted), k)

RECURSIVE sortByScore(_, _)
sortByScore(sorted, rest) ==
    IF rest = <<>> THEN sorted
    ELSE sortByScore(insertByScore(sorted, Head(rest)), Tail(rest))

IsOpportunity(k) == k.isOpportunity
IsShared_AnyRanked(k) == Truthy(k.userRanking)

IsShared(k) == Truthy(k.userRanking) /\ k.competitorCount > 0
IsUniqueToUser(k) == Truthy(k.userRanking) /\ k.competitorCount = 0

aggregateKeywords(userDomain, userKeywords, competitorData, competitorDomains, t) ==
    LET keywordMap == addCompetitorData(addUserKeywords(<<>>, userKeywords), competitorData)
        values == [i \in 1..Len(keywordMap) |-> keywordMap[i].v]
        allKeywords ==
            [i \in 1..Len(values) |->
                IF values[i].isOpportunity
                THEN [values[i] EXCEPT
                        !.opportunityScore = Num(calculateOpportunityScore(values[i]))]
                ELSE values[i]]
    IN [tag |-> "result",
        allKeywords |-> allKeywords,
        opportunities |-> sortByScore(<<>>, SelectSeq(allKeywords, IsOpportunity)),
        shared |-> SelectSeq(allKeywords, IsShared),
        uniqueToUser |-> SelectSeq(allKeywords, IsUniqueToUser),
        totalKeywords |-> Len(allKeywords),
        analyzedCompetitors |-> competitorDomains,
        timestamp |-> t]

---------------------------------------------------------------------------
(* The callers of the cache: any key, a few values, any of the operations *)

Values == {Str("v1"), Str("v2"), CircularV}
Ttls == {{}, {0}, {1}}
ConfigDays == {0, 1, 2}

Call(op, key, data, ttl, r) ==
    [op |-> op, key |-> key, data |-> data, ttl |-> ttl,
     ret |-> r.ret, raised |-> r.raised, evicted |-> r.evicted, wrote |-> r.wrote,
     log |-> r.log]

NoCall == [op |-> "none", key |-> "", data |-> UndefinedV, ttl |-> {},
           ret |-> UndefinedV, raised |-> FALSE, evicted |-> FALSE, wrote |-> FALSE,
           log |-> ""]

\* What earlier sessions and earlier versions may have left under a cache key.
StaleItems ==
    {Absent, NotJsonText, compressToUTF16(NotJsonText),
     compressToUTF16(JsonText(ObjectJ(UndefinedV))),
     compressToUTF16(JsonText(ObjectJ(Str("stale")))),
     compressToUTF16(JsonText(NullJ))}

\* What StorageService keeps under its own key: the encrypted credentials.
Credentials == [codec |-> "aes", kind |-> "json", val |-> [t |-> "credentials"]]

\* No function applied.
NoProbe == [op |-> "none"]

NoEvent ==
    [kind |-> "none", userDomain |-> "", userKeywords |-> <<>>, competitors |-> <<>>,
     cached |-> UndefinedV, fetches |-> 0, requests |-> 0, outcome |-> "pending",
     result |-> UndefinedV, sources |-> <<>>, wrote |-> FALSE]

Init ==
    /\ store \in {st \in [Slots -> StaleItems \cup {Credentials}] :
                    /\ st[CONFIG_KEY] = Absent
                    /\ st[API_CREDS_KEY] \in {Absent, Credentials}
                    /\ \A s \in Slots \ {API_CREDS_KEY} : st[s] \in StaleItems}
    /\ quota = StorageQuota
    /\ now = 0
    /\ last = NoCall
    /\ calls = <<>>
    /\ ev = NoEvent
    /\ probe = NoProbe

Apply(op, key, data, ttl, r) ==
    /\ store' = r.st
    /\ last' = Call(op, key, data, ttl, r)
    /\ UNCHANGED <<quota, now, calls, ev, probe>>

Save(key, data, ttl) ==
    \E sorted \in SortOutcomes(store) :
        Apply("save", key, data, ttl, save(store, quota, now, key, data, ttl, sorted))

Get(key) == Apply("get", key, UndefinedV, {}, get(store, now, key))

Remove(key) == Apply("remove", key, UndefinedV, {}, remove(store, key))

ClearAll == Apply("clearAll", "", UndefinedV, {}, clearAll(store))

GetMetadata(key) == Apply("getMetadata", key, UndefinedV, {}, getMetadata(store, now, key))

GetConfig == Apply("getConfig", "", UndefinedV, {}, getConfig(store))

SetConfig(days) == Apply("setConfig", "", UndefinedV, {days}, setConfig(store, quota, days))

GetCacheSize == Apply("getCacheSize", "", UndefinedV, {}, getCacheSize(store))

Tick ==
    /\ now < MaxTicks
    /\ now' = now + 1
    /\ last' = NoCall
    /\ ev' = NoEvent
    /\ UNCHANGED <<store, quota, calls, probe>>

Next ==
    \/ \E k \in Keys, d \in Values, ttl \in Ttls : Save(k, d, ttl)
    \/ \E k \in Keys : Get(k)
    \/ \E k \in Keys : Remove(k)
    \/ ClearAll
    \/ \E k \in Keys : GetMetadata(k)
    \/ GetConfig
    \/ \E d \in ConfigDays : SetConfig(d)
    \/ GetCacheSize
    \/ Tick

Spec == Init /\ [][Next]_vars

---------------------------------------------------------------------------
(* DataforseoService.fetchDomainKeywords: one source's keywords, from the  *)
(* cache or from the API.                                                  *)

ListV(items) == [tag |-> "list", items |-> items]

\* An item of the API's answer; competition is given in thousandths.
RawItem(k, v, c, r) ==
    [keyword |-> k, search_volume |-> v, competition |-> c, rank_absolute |-> r]

OkResponse(items) == [kind |-> "response", status_code |-> 20000, items |-> items]
ApiErrorResponse == [kind |-> "response", status_code |-> 40100, items |-> <<>>]
HttpError == [kind |-> "error", status_code |-> 0, items |-> <<>>]

\* difficulty: Math.round(competition * 100)
parseItem(item) ==
    [keyword |-> item.keyword,
     searchVolume |-> item.search_volume,
     difficulty |-> (item.competition + 5) \div 10,
     cpc |-> UndefinedV,
     position |-> item.rank_absolute,
     etv |-> UndefinedV]

parseKeywordResponse(response) ==
    IF response.status_code # 20000
    THEN [raised |-> TRUE, keywords |-> <<>>]
    ELSE [raised |-> FALSE,
          keywords |-> [i \in 1..Len(response.items) |-> parseItem(response.items[i])]]

getCredentials(st) == getItem(st, API_CREDS_KEY)

domainCacheKey(domain) == "domain_keywords_" \o domain

\* The call itself: "value" for cached keywords, "error" without credentials,
\* "pending" when the request goes to the API.
fetchDomainKeywords(st, t, domain) ==
    LET cached == get(st, t, domainCacheKey(domain))
    IN IF cached.raised THEN [st |-> st, kind |-> "raised", keywords |-> <<>>]
       ELSE IF Truthy(cached.ret)
       THEN [st |-> cached.st, kind |-> "value", keywords |-> cached.ret.items]
       ELSE IF getCredentials(cached.st) = Absent
       THEN [st |-> cached.st, kind |-> "error", keywords |-> <<>>]
       ELSE [st |-> cached.st, kind |-> "pending", keywords |-> <<>>]

\* The pipe behind http.post: map(parseKeywordResponse), tap(cache.save), catchError.
fetchResponse(st, q, t, domain, response, sorted) ==
    IF response.kind = "error" THEN [st |-> st, kind |-> "error", keywords |-> <<>>]
    ELSE LET parsed == parseKeywordResponse(response)
         IN IF parsed.raised THEN [st |-> st, kind |-> "error", keywords |-> <<>>]
            ELSE LET saved == save(st, q, t, domainCacheKey(domain), ListV(parsed.keywords),
                                   {}, sorted)
                 IN IF saved.raised THEN [st |-> st, kind |-> "error", keywords |-> <<>>]
                    ELSE [st |-> saved.st, kind |-> "value", keywords |-> parsed.keywords]

---------------------------------------------------------------------------
(* CompetitorAnalysisService.analyzeCompetitors and its subscriber *)

\* The order of Array.prototype.sort on the domain names of the model.
DomainOrder == <<"x", "y", "z">>
DomainRank(d) == CHOOSE i \in 1..Len(DomainOrder) : DomainOrder[i] = d

RECURSIVE insertDomain(_, _)
insertDomain(sorted, d) ==
    IF sorted = <<>> THEN <<d>>
    ELSE IF DomainRank(d) < DomainRank(Head(sorted)) THEN <<d>> \o sorted
    ELSE <<Head(sorted)>> \o insertDomain(Tail(sorted), d)

sort_Keep(domains) == domains

RECURSIVE sort(_)
sort(domains) ==
    IF domains = <<>> THEN <<>>
    ELSE insertDomain(sort(SubSeq(domains, 1, Len(domains) - 1)), domains[Len(domains)])

join_First(strings, separator) == IF strings = <<>> THEN "" ELSE strings[1]

RECURSIVE join(_, _)
join(strings, separator) ==
    IF strings = <<>> THEN ""
    ELSE IF Len(strings) = 1 THEN strings[1]
    ELSE strings[1] \o separator \o join(Tail(strings), separator)

getCacheKey_Unsorted(userDomain, competitors) ==
    "competitor_analysis_" \o userDomain \o "_" \o join(competitors, ",")

getCacheKey(userDomain, competitors) ==
    "competitor_analysis_" \o userDomain \o "_" \o join(sort(competitors), ",")

cacheHit_Inverted(cached) == ~Truthy(cached)

cacheHit_Never(cached) == FALSE

\* if (cached) of analyzeCompetitors
cacheHit(cached) == Truthy(cached)

Source(domain, state, keywords, failed) ==
    [domain |-> domain, state |-> state, keywords |-> keywords, failed |-> failed]

withFallback_Retry(domain, fetched) ==
    CASE fetched.kind = "value" -> Source(domain, "done", fetched.keywords, FALSE)
      [] OTHER -> Source(domain, "pending", <<>>, fetched.kind = "error")

withFallback_Rethrow(domain, fetched) ==
    CASE fetched.kind = "value" -> Source(domain, "done", fetched.keywords, FALSE)
      [] fetched.kind = "error" -> Source(domain, "error", <<>>, TRUE)
      [] OTHER -> Source(domain, "pending", <<>>, FALSE)

\* .pipe(map(keywords => ({domain, keywords})), catchError(() => of({domain, keywords: []})))
withFallback(domain, fetched) ==
    CASE fetched.kind = "value" -> Source(domain, "done", fetched.keywords, FALSE)
      [] fetched.kind = "error" -> Source(domain, "done", <<>>, TRUE)
      [] OTHER -> Source(domain, "pending", <<>>, FALSE)

\* competitors.map(competitor => fetchDomainKeywords(competitor.domain).pipe(...))
RECURSIVE competitorFetches(_, _, _)
competitorFetches(st, t, competitors) ==
    IF competitors = <<>> THEN [st |-> st, raised |-> FALSE, sources |-> <<>>, fetched |-> 0]
    ELSE LET fetched == fetchDomainKeywords(st, t, Head(competitors))
         IN IF fetched.kind = "raised"
            THEN [st |-> st, raised |-> TRUE, sources |-> <<>>, fetched |-> 1]
            ELSE LET rest == competitorFetches(fetched.st, t, Tail(competitors))
                 IN [st |-> rest.st, raised |-> rest.raised,
                     sources |-> <<withFallback(Head(competitors), fetched)>> \o rest.sources,
                     fetched |-> 1 + rest.fetched]

forkJoin_Any(sources) ==
    IF sources = <<>> THEN "complete"
    ELSE IF \E i \in 1..Len(sources) : sources[i].state = "error" THEN "error"
    ELSE IF \E i \in 1..Len(sources) : sources[i].state = "done" THEN "next"
    ELSE "pending"

\* forkJoin: completes at once on no source, fails with the first source that
\* fails, gives the list of values when every source has given one.
forkJoin(sources) ==
    IF sources = <<>> THEN "complete"
    ELSE IF \E i \in 1..Len(sources) : sources[i].state = "error" THEN "error"
    ELSE IF \A i \in 1..Len(sources) : sources[i].state = "done" THEN "next"
    ELSE "pending"

settle_CompletionOrder(sources, i, source) ==
    LET others == SubSeq(sources, 1, i - 1) \o SubSeq(sources, i + 1, Len(sources))
        isDone(x) == x.state # "pending"
        isPending(x) == x.state = "pending"
    IN SelectSeq(others, isDone) \o <<source>> \o SelectSeq(others, isPending)

\* forkJoin keeps the value of its i-th source at index i, whenever it arrives.
settle(sources, i, source) == [sources EXCEPT ![i] = source]

competitorData(sources) ==
    [i \in 1..Len(sources) |-> [domain |-> sources[i].domain, keywords |-> sources[i].keywords]]

joined_SaveComplete(st, q, t, userDomain, userKeywords, competitors, sources, sorted) ==
    LET emitted == forkJoin(sources)
    IN IF emitted # "next"
       THEN [st |-> st, outcome |-> emitted, result |-> UndefinedV, wrote |-> FALSE]
       ELSE LET results == aggregateKeywords(userDomain, userKeywords,
                                             competitorData(sources), competitors, t)
                saved == save(st, q, t, getCacheKey(userDomain, competitors), results, {},
                              sorted)
            IN IF \E i \in 1..Len(sources) : sources[i].failed
               THEN [st |-> st, outcome |-> "next", result |-> results, wrote |-> FALSE]
               ELSE IF saved.raised
               THEN [st |-> st, outcome |-> "error", result |-> UndefinedV, wrote |-> FALSE]
               ELSE [st |-> saved.st, outcome |-> "next", result |-> results,
                     wrote |-> saved.wrote]

joined_FirstWins(st, q, t, userDomain, userKeywords, competitors, sources, sorted) ==
    LET emitted == forkJoin(sources)
    IN IF emitted # "next"
       THEN [st |-> st, outcome |-> emitted, result |-> UndefinedV, wrote |-> FALSE]
       ELSE LET results == aggregateKeywords(userDomain, userKeywords,
                                             competitorData(sources), competitors, t)
                saved == save(st, q, t, getCacheKey(userDomain, competitors), results, {},
                              sorted)
            IN IF st[CACHE_PREFIX \o getCacheKey(userDomain, competitors)] # Absent
               THEN [st |-> st, outcome |-> "next", result |-> results, wrote |-> FALSE]
               ELSE IF saved.raised
               THEN [st |-> st, outcome |-> "error", result |-> UndefinedV, wrote |-> FALSE]
               ELSE [st |-> saved.st, outcome |-> "next", result |-> results,
                     wrote |-> saved.wrote]

\* What the subscriber has got from the forkJoin and its map(...) so far.
joined(st, q, t, userDomain, userKeywords, competitors, sources, sorted) ==
    LET emitted == forkJoin(sources)
    IN IF emitted # "next"
       THEN [st |-> st, outcome |-> emitted, result |-> UndefinedV, wrote |-> FALSE]
       ELSE LET results == aggregateKeywords(userDomain, userKeywords,
                                             competitorData(sources), competitors, t)
                saved == save(st, q, t, getCacheKey(userDomain, competitors), results, {},
                              sorted)
            IN IF saved.raised
               THEN [st |-> st, outcome |-> "error", result |-> UndefinedV, wrote |-> FALSE]
               ELSE [st |-> saved.st, outcome |-> "next", result |-> results,
                     wrote |-> saved.wrote]

---------------------------------------------------------------------------
(* The application: analyses of one user domain against its competitors *)

UserDomains == {"u"}
UserKeywordLists ==
    {<<KW("seo tools", 5000, 40, 5), KW("only mine", 100, 10, 1)>>,
     <<KW("keyword research", 3000, 100, 9)>>}
CompetitorLists == {<<>>, <<"x">>, <<"x", "y">>, <<"y", "x">>}

\* What the API knows of each competitor.
ItemsOf(domain) ==
    IF domain = "x"
    THEN <<RawItem("SEO Tools", 5000, 400, 3), RawItem("keyword research", 3000, 300, 2)>>
    ELSE <<RawItem("Keyword Research", 3000, 300, 7)>>

Responses(domain) == {OkResponse(ItemsOf(domain)), ApiErrorResponse, HttpError}

AnalysisSlots ==
    {CACHE_PREFIX \o getCacheKey(u, c) : u \in UserDomains, c \in CompetitorLists}
    \cup {CACHE_PREFIX \o domainCacheKey(d) : d \in {"x", "y"}}
    \cup {CONFIG_KEY, API_CREDS_KEY}

Event(kind, userDomain, userKeywords, competitors, cached, fetches, requests, j, sources) ==
    [kind |-> kind, userDomain |-> userDomain, userKeywords |-> userKeywords,
     competitors |-> competitors, cached |-> cached, fetches |-> fetches,
     requests |-> requests, outcome |-> j.outcome, result |-> j.result,
     sources |-> sources, wrote |-> j.wrote, settled |-> 0]

Pending(sources) == {i \in 1..Len(sources) : sources[i].state = "pending"}

InitAnalysis ==
    /\ store \in {st \in [AnalysisSlots -> {Absent, Credentials, JsonText(ConfigJ(0)),
                                            compressToUTF16(JsonText(ObjectJ(Str("stale"))))}] :
                    /\ st[API_CREDS_KEY] \in {Absent, Credentials}
                    /\ st[CONFIG_KEY] \in {Absent, JsonText(ConfigJ(0))}
                    /\ st[CACHE_PREFIX \o getCacheKey("u", <<"x">>)]
                         \in {Absent, compressToUTF16(JsonText(ObjectJ(Str("stale"))))}
                    /\ \A s \in AnalysisSlots \ {API_CREDS_KEY, CONFIG_KEY,
                                                 CACHE_PREFIX \o getCacheKey("u", <<"x">>)} :
                          st[s] = Absent}
    /\ quota = AnalysisQuota
    /\ now = 0
    /\ last = NoCall
    /\ calls = <<>>
    /\ ev = NoEvent
    /\ probe = NoProbe

\* analyzeCompetitors(userDomain, userKeywords, competitors).subscribe(...) over the
\* storage st; kind names the handler that makes the call.
Analyze(kind, st, userDomain, userKeywords, competitors) ==
    LET cached == get(st, now, getCacheKey(userDomain, competitors))
        nothing(outcome) == [outcome |-> outcome, result |-> UndefinedV, wrote |-> FALSE]
    IN IF cached.raised
       THEN /\ ev' = Event(kind, userDomain, userKeywords, competitors, UndefinedV,
                           0, 0, nothing("raised"), <<>>)
            /\ store' = st
            /\ UNCHANGED calls
       ELSE IF cacheHit(cached.ret)
       THEN /\ ev' = Event(kind, userDomain, userKeywords, competitors, cached.ret,
                           0, 0,
                           [outcome |-> "next", result |-> cached.ret, wrote |-> FALSE],
                           <<>>)
            /\ store' = cached.st
            /\ UNCHANGED calls
       ELSE LET fetches == competitorFetches(cached.st, now, competitors)
            IN IF fetches.raised
               THEN /\ ev' = Event(kind, userDomain, userKeywords, competitors,
                                   cached.ret, fetches.fetched, 0, nothing("raised"), <<>>)
                    /\ store' = fetches.st
                    /\ UNCHANGED calls
               ELSE \E sorted \in SortOutcomes(fetches.st) :
                      LET j == joined(fetches.st, quota, now, userDomain, userKeywords,
                                      competitors, fetches.sources, sorted)
                      IN /\ ev' = Event(kind, userDomain, userKeywords, competitors,
                                        cached.ret, fetches.fetched,
                                        Cardinality(Pending(fetches.sources)), j,
                                        fetches.sources)
                         /\ store' = j.st
                         /\ calls' = IF j.outcome = "pending"
                                     THEN Append(calls,
                                              [userDomain |-> userDomain,
                                               userKeywords |-> userKeywords,
                                               competitors |-> competitors,
                                               sources |-> fetches.sources])
                                     ELSE calls

\* clearCache(userDomain, competitors): this.cache.remove(cacheKey)
clearCache(st, userDomain, competitors) ==
    remove(st, getCacheKey(userDomain, competitors)).st

\* The handlers of the component that start an analysis: analyzeCompetitors(), and
\* refreshAnalysis(), which clears the cache of the analysis shown and then calls it.
Handlers == {"analyze", "refresh"}

\* analysisService.analyzeCompetitors(userDomain, userKeywords, competitors).subscribe(...)
\* The application runs one analysis at a time; it refreshes the analysis whose
\* result it shows.
AnalyzeCompetitors(handler, userDomain, userKeywords, competitors) ==
    /\ calls = <<>>
    /\ handler = "refresh" =>
          /\ ev.kind \in {"analyze", "refresh", "respond"}
          /\ ev.outcome = "next"
          /\ ev.userDomain = userDomain
          /\ ev.userKeywords = userKeywords
          /\ ev.competitors = competitors
    /\ Analyze(handler,
               IF handler = "refresh" THEN clearCache(store, userDomain, competitors)
               ELSE store,
               userDomain, userKeywords, competitors)
    /\ UNCHANGED <<quota, now, last, probe>>

\* The API's answer to the request of call c for its i-th competitor.
HttpRespond(c, i, response) ==
    /\ c \in 1..Len(calls)
    /\ i \in Pending(calls[c].sources)
    /\ response \in Responses(calls[c].sources[i].domain)
    /\ \E sortedA \in SortOutcomes(store) :
         LET call == calls[c]
             domain == call.sources[i].domain
             fetched == fetchResponse(store, quota, now, domain, response, sortedA)
             sources == settle(call.sources, i, withFallback(domain, fetched))
         IN \E sortedB \in SortOutcomes(fetched.st) :
              LET j == joined(fetched.st, quota, now, call.userDomain, call.userKeywords,
                              call.competitors, sources, sortedB)
              IN /\ ev' = [Event("respond", call.userDomain, call.userKeywords,
                                 call.competitors, UndefinedV, 0, 0, j, sources)
                           EXCEPT !.settled = i]
                 /\ store' = j.st
                 /\ calls' = IF j.outcome = "pending"
                             THEN [calls EXCEPT ![c].sources = sources]
                             ELSE SubSeq(calls, 1, c - 1) \o SubSeq(calls, c + 1, Len(calls))
    /\ UNCHANGED <<quota, now, last, probe>>

\* Time passes between two steps of the application.
Elapse ==
    /\ now < MaxAnalysisTicks
    /\ now' = now + 1
    /\ ev' = NoEvent
    /\ UNCHANGED <<store, quota, last, calls, probe>>

NextAnalysis ==
    \/ \E h \in Handlers, u \in UserDomains, k \in UserKeywordLists, c \in CompetitorLists :
          AnalyzeCompetitors(h, u, k, c)
    \/ \E c \in 1..Len(calls), i \in 1..2, r \in Responses("x") \cup Responses("y") :
          HttpRespond(c, i, r)
    \/ Elapse

SpecAnalysis == InitAnalysis /\ [][NextAnalysis]_vars

---------------------------------------------------------------------------
(* Analyses of one set of sources that run at the same time *)

ConcurrentKeywords == <<KW("seo tools", 5000, 40, 5), KW("only mine", 100, 10, 1)>>
ConcurrentLists == {<<"x", "y">>, <<"y", "x">>}
ConcurrentResponses == {OkResponse(ItemsOf("x")), OkResponse(ItemsOf("y")), HttpError}

InitConcurrent ==
    /\ store = [s \in AnalysisSlots |-> IF s = API_CREDS_KEY THEN Credentials ELSE Absent]
    /\ quota = AnalysisQuota
    /\ now = 0
    /\ last = NoCall
    /\ calls = <<>>
    /\ ev = NoEvent
    /\ probe = NoProbe

\* analyzeCompetitors(...).subscribe(...), called while earlier calls wait for the
\* answers to their requests.
StartAnalysis(userDomain, userKeywords, competitors) ==
    /\ Len(calls) < MaxCalls
    /\ Analyze("analyze", store, userDomain, userKeywords, competitors)
    /\ UNCHANGED <<quota, now, last, probe>>

NextConcurrent ==
    \/ \E u \in UserDomains, c \in ConcurrentLists :
          StartAnalysis(u, ConcurrentKeywords, c)
    \/ \E c \in 1..Len(calls), i \in 1..2, r \in ConcurrentResponses :
          HttpRespond(c, i, r)

SpecConcurrent == InitConcurrent /\ [][NextConcurrent]_vars

---------------------------------------------------------------------------
(* A full localStorage: entries of several ages written beforehand, as the *)
(* quota tests of the cache do, and then saves that may not fit.           *)

EvictionKeys == {"key1", "key2", "key3", "key4", "newKey"}
WrittenKeys == EvictionKeys \ {"newKey"}

EvictionSlots == {CACHE_PREFIX \o k : k \in EvictionKeys} \cup {CONFIG_KEY, API_CREDS_KEY}

writeEntry(key, data, timestamp, expiresAt) ==
    compressToUTF16(JsonText(EntryJ(key, data, timestamp, expiresAt)))

\* What a key holds at the start: an entry written 1..MaxAge ticks ago, or
\* nothing (0), text that does not decompress (-1), a decodable object that
\* is no CacheEntry (-2).
Shapes == (0 - 2)..MaxAge

WrittenItem(key, shape, t) ==
    CASE shape = 0 -> Absent
      [] shape = 0 - 1 -> NotJsonText
      [] shape = 0 - 2 -> compressToUTF16(JsonText(ObjectJ(Str("stale"))))
      [] OTHER -> writeEntry(key, Str("value"), t - shape, t + TicksPerDay)

InitEviction ==
    /\ now = MaxAge
    /\ \E shapes \in [WrittenKeys -> Shapes] :
          \* the keys are interchangeable: shapes in the order of the keys
          /\ shapes["key1"] <= shapes["key2"]
          /\ shapes["key2"] <= shapes["key3"]
          /\ shapes["key3"] <= shapes["key4"]
          /\ store = [s \in EvictionSlots |->
                     IF s = CONFIG_KEY THEN JsonText(ConfigJ(1))
                     ELSE IF s = API_CREDS_KEY THEN Credentials
                     ELSE IF s = CACHE_PREFIX \o "newKey" THEN Absent
                     ELSE WrittenItem(SubSeq(s, Len(CACHE_PREFIX) + 1, Len(s)),
                                      shapes[SubSeq(s, Len(CACHE_PREFIX) + 1, Len(s))], MaxAge)]
    /\ quota = Cardinality(Present(store))
    /\ last = NoCall
    /\ calls = <<>>
    /\ ev = NoEvent
    /\ probe = NoProbe

NextEviction ==
    \/ \E k \in {"newKey", "key1"}, d \in {Str("newValue"), LargeData, CircularV},
          ttl \in {{}, {0}} :
          Save(k, d, ttl)
    \/ ClearAll

SpecEviction == InitEviction /\ [][NextEviction]_vars

---------------------------------------------------------------------------
(* getCacheKey on its own: two lists of competitors drawn for one user     *)
(* domain, and the keys derived for them.                                  *)

RECURSIVE SeqsUpTo(_, _)
SeqsUpTo(S, n) ==
    IF n = 0 THEN {<<>>}
    ELSE SeqsUpTo(S, n - 1) \cup {Append(q, x) : q \in {r \in SeqsUpTo(S, n - 1) : Len(r) = n - 1},
                                                 x \in S}

KeyDomains == {DomainOrder[i] : i \in 1..Len(DomainOrder)}
KeyLists == SeqsUpTo(KeyDomains, MaxSources)

InitKey ==
    /\ store = <<>>
    /\ quota = 0
    /\ now = 0
    /\ last = NoCall
    /\ calls = <<>>
    /\ ev = NoEvent
    /\ \E u \in UserDomains, a \in KeyLists, b \in KeyLists :
          probe = [op |-> "drawn", userDomain |-> u, competitors |-> a, others |-> b,
                   key |-> "", otherKey |-> ""]

GetCacheKey ==
    /\ probe.op = "drawn"
    /\ probe' = [probe EXCEPT !.op = "getCacheKey",
                              !.key = getCacheKey(probe.userDomain, probe.competitors),
                              !.otherKey = getCacheKey(probe.userDomain, probe.others)]
    /\ UNCHANGED <<store, quota, now, last, calls, ev>>

NextKey == GetCacheKey

SpecKey == InitKey /\ [][NextKey]_vars

---------------------------------------------------------------------------
(* aggregateKeywords on its own: the keywords of the user and of two       *)
(* competitors drawn from a few keywords, some equal up to case, and the   *)
(* result built from them.                                                 *)

AggregateUserKeywords == {KW("seo tools", 5000, 40, 1), KW("only mine", 100, 10, 2)}

AggregateKeywords ==
    {KW("seo tools", 5000, 40, 3), KW("SEO Tools", 250000, 0, 7),
     KW("blog", 5000, 40, 5), KW("keyword research", 3000, 100, 4)}

AggregateUserLists == SeqsUpTo(AggregateUserKeywords, MaxKeywords)
AggregateLists == SeqsUpTo(AggregateKeywords, MaxKeywords)

AggregateCompetitors == <<"x", "y">>

InitAggregate ==
    /\ store = <<>>
    /\ quota = 0
    /\ now = 0
    /\ last = NoCall
    /\ calls = <<>>
    /\ ev = NoEvent
    /\ \E u \in AggregateUserLists, x \in AggregateLists, y \in AggregateLists :
          probe = [op |-> "drawn", userKeywords |-> u,
                   competitorData |-> <<[domain |-> "x", keywords |-> x],
                                        [domain |-> "y", keywords |-> y]>>,
                   result |-> UndefinedV]

Aggregate ==
    /\ probe.op = "drawn"
    /\ \E u \in UserDomains :
          probe' = [probe EXCEPT !.op = "aggregateKeywords",
                                 !.result = aggregateKeywords(u, probe.userKeywords,
                                                probe.competitorData, AggregateCompetitors,
                                                now)]
    /\ UNCHANGED <<store, quota, now, last, calls, ev>>

NextAggregate == Aggregate

SpecAggregate == InitAggregate /\ [][NextAggregate]_vars

---------------------------------------------------------------------------
(* What the claims speak of *)

SlotOf(k) == CACHE_PREFIX \o k

\* The stored config can be read, and its expirationDays is not 0.
CachingEnabled(st) == ~getConfig(st).raised /\ getConfig(st).ret.expirationDays # 0

CachingDisabled(st) == ~getConfig(st).raised /\ getConfig(st).ret.expirationDays = 0

\* The item is the compressed JSON text of a CacheEntry.
WellFormed(item) == item.codec = "utf16" /\ item.kind = "json" /\ item.val.t = "entry"

ExpiredEntry(st, t, k) == WellFormed(st[SlotOf(k)]) /\ st[SlotOf(k)].val.expiresAt < t

Corrupt(st, k) == st[SlotOf(k)] # Absent /\ ~WellFormed(st[SlotOf(k)])

EffectiveTtlZero(st, ttl) == ttl = {0} \/ (ttl = {} /\ CachingDisabled(st))

---------------------------------------------------------------------------
(* Claims *)

(* C1: cache round-trip.  A save(key, v) with an effective TTL > 0 whose    *)
(* write did not fail, immediately followed by get(key), returns v.         *)
C1_RoundTrip ==
    [][(last.op = "save" /\ last.wrote /\ last'.op = "get" /\ last'.key = last.key)
        => (~last'.raised /\ last'.ret = last.data)]_vars

(* C6: no operation of the cache ever raises to its caller.                 *)
C6_NeverRaises == ~last.raised

(* C7: expiry.  With caching enabled, get(key) on an entry whose expiresAt  *)
(* is earlier than the current time returns absent and removes the entry,   *)
(* so that a following get is a clean miss.                                 *)
C7_Expiry ==
    [][\A k \in Keys :
        (CachingEnabled(store) /\ ExpiredEntry(store, now, k)
            /\ last'.op = "get" /\ last'.key = k)
        => /\ ~last'.raised /\ last'.ret = NullV
           /\ store'[SlotOf(k)] = Absent
           /\ get(store', now', k).log = "Cache miss"]_vars

C7_Witness ==
    /\ last.op = "get" /\ last.log = "Cache expired"
    /\ last.ret = NullV /\ store[SlotOf(last.key)] = Absent

(* C8: self-healing.  With caching enabled, get(key) on a stored item that  *)
(* cannot be decompressed, cannot be parsed or is no well-formed CacheEntry *)
(* returns absent and deletes the item.                                     *)
C8_SelfHealing ==
    [][\A k \in Keys :
        (CachingEnabled(store) /\ Corrupt(store, k) /\ last'.op = "get" /\ last'.key = k)
        => /\ ~last'.raised /\ ~Truthy(last'.ret)
           /\ store'[SlotOf(k)] = Absent]_vars

(* C9: while expirationDays is 0, get(key) returns absent for every key and *)
(* neither deletes nor rewrites a stored entry.                             *)
C9_DisabledGet ==
    [][\A k \in Keys :
        (CachingDisabled(store) /\ last'.op = "get" /\ last'.key = k)
        => (~last'.raised /\ last'.ret = NullV /\ store' = store)]_vars

C9_Witness ==
    /\ last.op = "get" /\ last.log = "Cache is disabled, not retrieving"
    /\ last.ret = NullV
    /\ WellFormed(store[SlotOf(last.key)])
    /\ ~ExpiredEntry(store, now, last.key)

(* C10: a save whose effective TTL is 0 leaves the backing store unchanged. *)
C10_SaveTtlZero ==
    [][(last'.op = "save" /\ EffectiveTtlZero(store, last'.ttl)) => store' = store]_vars

C10_Witness ==
    /\ last.op = "save" /\ last.log = "Cache is disabled, not saving"
    /\ WellFormed(store[SlotOf(last.key)])
    /\ store[SlotOf(last.key)].val.data # last.data

---------------------------------------------------------------------------
(* The analysis claims *)

Range(s) == {s[i] : i \in 1..Len(s)}

\* Two steps of analyses of the same subject against the same set of sources.
SameAnalysis(e, f) ==
    e.userDomain = f.userDomain /\ Range(e.competitors) = Range(f.competitors)

\* The step delivered a result to the subscriber of its analysis.
Delivered(e) == e.kind \in {"analyze", "respond"} /\ e.outcome = "next"

\* The delivered result is in the cache: it came from there, or save stored it.
Stored(e) == Truthy(e.cached) \/ e.wrote

FailedSources(e) == {i \in 1..Len(e.sources) : e.sources[i].failed}
SucceededSources(e) ==
    {i \in 1..Len(e.sources) : e.sources[i].state = "done" /\ ~e.sources[i].failed}

HasKeyword(result, keyword) ==
    \E i \in 1..Len(result.allKeywords) :
        toLowerCase(result.allKeywords[i].keyword) = toLowerCase(keyword)

RankedBy(result, keyword, domain) ==
    \E i \in 1..Len(result.allKeywords) :
        /\ toLowerCase(result.allKeywords[i].keyword) = toLowerCase(keyword.keyword)
        /\ \E r \in 1..Len(result.allKeywords[i].competitorRankings) :
              /\ result.allKeywords[i].competitorRankings[r].domain = domain
              /\ result.allKeywords[i].competitorRankings[r].position = keyword.position

Contributes(result, domain) ==
    \E i \in 1..Len(result.allKeywords) :
        \E r \in 1..Len(result.allKeywords[i].competitorRankings) :
            result.allKeywords[i].competitorRankings[r].domain = domain

(* C2: repeat analysis is served from the cache.  After an analysis has     *)
(* delivered its result with caching enabled, an analysis of the same       *)
(* subject and the same set of sources that starts right after it delivers  *)
(* that same result and calls fetchDomainKeywords for no source.            *)
C2_RepeatServed ==
    [][(Delivered(ev) /\ CachingEnabled(store) /\ ev'.kind = "analyze"
        /\ SameAnalysis(ev, ev') /\ now' = now)
       => (ev'.outcome = "next" /\ ev'.result = ev.result /\ ev'.fetches = 0)]_vars

(* C2, amended: the same, for a first analysis whose result is in the cache *)
(* when it ends: it was served from the cache itself, or its save stored    *)
(* the entry (a save that fails on the quota drops the result).             *)
C2_RepeatServedWhenStored ==
    [][(Delivered(ev) /\ Stored(ev) /\ CachingEnabled(store) /\ ev'.kind = "analyze"
        /\ SameAnalysis(ev, ev') /\ now' = now)
       => (/\ ev'.outcome = "next" /\ ev'.result = ev.result
           /\ ev'.fetches = 0 /\ ev'.requests = 0 /\ calls' = calls)]_vars

\* An analysis served from the cache with the result that an analysis of the same
\* sources, given in the other order, has stored.
C2_Witness ==
    /\ ev.kind = "analyze" /\ ev.outcome = "next" /\ ev.fetches = 0
    /\ Len(ev.competitors) = 2
    /\ ev.result.tag = "result"
    /\ ev.result.analyzedCompetitors # ev.competitors
    /\ Range(ev.result.analyzedCompetitors) = Range(ev.competitors)

(* C3: on a cache hit, that is when get returns a present value for the key *)
(* of the call, analyzeCompetitors delivers exactly that value, calls       *)
(* fetchDomainKeywords for no source, sends no request and leaves nothing   *)
(* in flight that could fetch later.                                        *)
C3_HitNoFetch ==
    [][(ev'.kind = "analyze"
        /\ ~get(store, now, getCacheKey(ev'.userDomain, ev'.competitors)).raised
        /\ Truthy(get(store, now, getCacheKey(ev'.userDomain, ev'.competitors)).ret))
       => (/\ ev'.outcome = "next"
           /\ ev'.result = get(store, now, getCacheKey(ev'.userDomain, ev'.competitors)).ret
           /\ ev'.cached = ev'.result
           /\ ev'.fetches = 0 /\ ev'.requests = 0
           /\ calls' = calls)]_vars

C3_Witness ==
    /\ ev.kind = "analyze" /\ Truthy(ev.cached) /\ ev.result = ev.cached
    /\ ev.competitors = <<"x">> /\ ev.result.tag = "result"
    /\ ev.fetches = 0 /\ calls = <<>>

(* C4: fail-open per source.  An analysis of which some source's fetch has  *)
(* failed never ends in an error; once all its sources have settled it has  *)
(* delivered a result, in which no failed source has a ranking, and which   *)
(* holds every keyword of the subject, with its ranking, and every keyword  *)
(* of every source that succeeded, with that source's ranking.              *)
C4_FailOpen ==
    (ev.kind \in {"analyze", "respond"} /\ FailedSources(ev) # {})
    => /\ ev.outcome \in {"pending", "next"}
       /\ (Pending(ev.sources) = {}) => ev.outcome = "next"
       /\ (ev.outcome = "pending") => (calls # <<>> /\ calls[Len(calls)].sources = ev.sources)
       /\ ev.outcome = "next" =>
            /\ ev.result.tag = "result"
            /\ \A i \in FailedSources(ev) :
                  /\ ev.sources[i].keywords = <<>>
                  /\ ~Contributes(ev.result, ev.sources[i].domain)
            /\ \A i \in 1..Len(ev.userKeywords) :
                  \E k \in 1..Len(ev.result.allKeywords) :
                     /\ toLowerCase(ev.result.allKeywords[k].keyword)
                          = toLowerCase(ev.userKeywords[i].keyword)
                     /\ Truthy(ev.result.allKeywords[k].userRanking)
            /\ \A i \in SucceededSources(ev) :
                  \A n \in 1..Len(ev.sources[i].keywords) :
                     RankedBy(ev.result, ev.sources[i].keywords[n], ev.sources[i].domain)

\* Of two sources one failed and the other gave its keywords.
C4_Witness ==
    /\ ev.kind = "respond" /\ ev.outcome = "next"
    /\ FailedSources(ev) # {}
    /\ \E i \in SucceededSources(ev) : ev.sources[i].keywords # <<>>
    /\ HasKeyword(ev.result, "only mine")

(* C5: an analysis with an empty list of sources that misses the cache      *)
(* delivers a result where every keyword of the subject is in uniqueToUser, *)
(* opportunities and shared are empty and analyzedCompetitors is empty.     *)
(* Stated of the step after which the subscriber gets nothing more.         *)
C5_EmptySources ==
    (ev.kind = "analyze" /\ ev.competitors = <<>> /\ ~Truthy(ev.cached)
     /\ ev.outcome # "pending")
    => /\ ev.outcome = "next"
       /\ ev.result.tag = "result"
       /\ Len(ev.result.uniqueToUser) = Len(ev.userKeywords)
       /\ ev.result.opportunities = <<>>
       /\ ev.result.shared = <<>>
       /\ ev.result.analyzedCompetitors = <<>>

---------------------------------------------------------------------------
(* The eviction claims *)

\* save(key, data, ttl) on st gets as far as localStorage.setItem, and the
\* item does not fit.
WriteFailsOnQuota(st, q, key, data, ttl) ==
    /\ ~getConfig(st).raised
    /\ IF ttl = {} THEN getConfig(st).ret.expirationDays # 0 ELSE ttl # {0}
    /\ ~JSON_stringify(EntryJ(key, data, 0, 0)).raised
    /\ SlotOf(key) \notin Present(st)
    /\ Cardinality(Present(st)) >= q

Removed(st, after) == Present(st) \ Present(after)

TimestampOf(st, s) == ParsedItem(st, s).timestamp

(* C11: a save whose write fails on the quota returns without raising, runs *)
(* the eviction once, and neither stores the new entry nor tries the write  *)
(* again: afterwards nothing is stored under the key.                       *)
C11_QuotaDrop ==
    [][(last'.op = "save"
        /\ WriteFailsOnQuota(store, quota, last'.key, last'.data, last'.ttl))
       => /\ ~last'.raised
          /\ store' \in {handleQuotaExceeded(store, sorted) : sorted \in SortOutcomes(store)}
          /\ store'[SlotOf(last'.key)] = Absent]_vars

\* The eviction has made room, and still the new entry is not there.
C11_Witness ==
    /\ last.op = "save" /\ last.key = "newKey" /\ last.data = Str("newValue")
    /\ last.evicted /\ ~last.raised
    /\ Cardinality(Present(store)) < quota
    /\ store[SlotOf("newKey")] = Absent

C13_EvictionOnlyOnQuota ==
    [][last'.evicted
       => (last'.op = "save"
           /\ WriteFailsOnQuota(store, quota, last'.key, last'.data, last'.ttl))]_vars

\* The item decompresses and parses to an object: a CacheEntry or another one.
Decodable(item) ==
    /\ item # Absent
    /\ decompressFromUTF16(item).ok
    /\ ~JSON_parse(decompressFromUTF16(item).s).raised
    /\ JSON_parse(decompressFromUTF16(item).s).val.t # "null"

Namespaced(s) == startsWith(s, CACHE_PREFIX) /\ s # CONFIG_KEY

(* C14: clearAll and the eviction leave the CacheConfig entry as it is, so  *)
(* getConfig gives the same before and after; the eviction also leaves      *)
(* every undecodable namespaced item and every key outside the namespace as *)
(* it is.                                                                   *)
C14_ConfigKept ==
    [][(last'.op = "clearAll" \/ last'.evicted)
       => /\ store'[CONFIG_KEY] = store[CONFIG_KEY]
          /\ getConfig(store').raised = getConfig(store).raised
          /\ getConfig(store').ret = getConfig(store).ret
          /\ last'.evicted =>
                \A s \in DOMAIN store :
                   (~Namespaced(s) \/ ~Decodable(store[s])) => store'[s] = store[s]]_vars

\* After an eviction that removed something: the config, the key outside the
\* namespace and an undecodable item are all still there.
C14_Witness ==
    /\ last.op = "save" /\ last.evicted
    /\ Cardinality(Present(store)) < quota
    /\ store[CONFIG_KEY] = JsonText(ConfigJ(1))
    /\ store[API_CREDS_KEY] = Credentials
    /\ \E k \in WrittenKeys : store[SlotOf(k)] = NotJsonText

(* C15: after clearAll nothing is left under the namespace but the config   *)
(* entry, so get and getMetadata give absent for every key, and every key   *)
(* outside the namespace holds what it held.                                *)
C15_ClearAll ==
    [][last'.op = "clearAll"
       => /\ \A s \in DOMAIN store : Namespaced(s) => store'[s] = Absent
          /\ \A s \in DOMAIN store : ~startsWith(s, CACHE_PREFIX) => store'[s] = store[s]
          /\ \A k \in Keys :
                /\ ~get(store', now', k).raised
                /\ get(store', now', k).ret = NullV
                /\ getMetadata(store', now', k).ret = NullV]_vars

(* C16: getMetadata(key) gives the timestamp and the age in whole days of   *)
(* the entry under key, also of one that has expired, gives absent when     *)
(* nothing decodable is there, and never changes the backing store.         *)
C16_Metadata ==
    [][\A k \in Keys :
        (last'.op = "getMetadata" /\ last'.key = k)
        => /\ store' = store
           /\ ~last'.raised
           /\ WellFormed(store[SlotOf(k)]) =>
                 /\ last'.ret.tag = "meta"
                 /\ last'.ret.timestamp = Num(store[SlotOf(k)].val.timestamp)
                 /\ last'.ret.ageInDays.tag = "num"
                 /\ last'.ret.ageInDays.n * TicksPerDay <= now - store[SlotOf(k)].val.timestamp
                 /\ (last'.ret.ageInDays.n + 1) * TicksPerDay
                       > now - store[SlotOf(k)].val.timestamp
           /\ Decodable(store[SlotOf(k)]) => last'.ret.tag = "meta"
           /\ ~Decodable(store[SlotOf(k)]) => last'.ret = NullV]_vars

\* The metadata of an entry that has expired, one day old, and the entry still there.
C16_Witness ==
    /\ last.op = "getMetadata" /\ last.ret.tag = "meta"
    /\ ExpiredEntry(store, now, last.key)
    /\ last.ret.ageInDays = Num(1)

---------------------------------------------------------------------------
(* The key claims *)

Count(s, x) == Cardinality({i \in 1..Len(s) : s[i] = x})

IsPermutation(a, b) ==
    Len(a) = Len(b) /\ \A x \in Range(a) \cup Range(b) : Count(a, x) = Count(b, x)

(* C17: key stability under reordering.  For every user domain and every    *)
(* list of competitors, getCacheKey gives the same key for every            *)
(* permutation of the list.                                                 *)
C17_KeyStable ==
    (probe.op = "getCacheKey" /\ IsPermutation(probe.competitors, probe.others))
    => probe.key = probe.otherKey

\* Two competitors in the two orders, and one key.
C17_Witness ==
    /\ probe.op = "getCacheKey"
    /\ Len(probe.competitors) = 2
    /\ probe.competitors # probe.others
    /\ IsPermutation(probe.competitors, probe.others)
    /\ probe.key = probe.otherKey
    /\ probe.key = "competitor_analysis_u_x,y"

(* C18: key sensitivity to membership.  For one user domain the list of    *)
(* competitors of an analysis and any other list get the same key only if   *)
(* they hold the same competitors, so an analysis is never served the       *)
(* result cached for another set of competitors.                            *)
C18_KeyMembership ==
    /\ ev.kind = "analyze"
         => \A b \in KeyLists :
               getCacheKey(ev.userDomain, ev.competitors) = getCacheKey(ev.userDomain, b)
                  => Range(ev.competitors) = Range(b)
    /\ (ev.kind = "analyze" /\ Truthy(ev.cached) /\ ev.cached.tag = "result")
         => Range(ev.cached.analyzedCompetitors) = Range(ev.competitors)

\* An analysis of x alone that missed the cache while the result for x and y is in it.
C18_Witness ==
    /\ ev.kind = "analyze" /\ ev.competitors = <<"x">> /\ ~Truthy(ev.cached)
    /\ WellFormed(store[SlotOf(getCacheKey("u", <<"x", "y">>))])
    /\ ev.outcome = "next"
    /\ ev.result.analyzedCompetitors = <<"x">>

---------------------------------------------------------------------------
(* The join claims *)

\* The step belongs to an analysis that missed the cache.
Missed(e) == e.kind \in {"analyze", "respond"} /\ ~Truthy(e.cached)

(* C19: join point.  On a cache miss analyzeCompetitors aggregates, saves   *)
(* and delivers its result only when every one of its fetches has given its *)
(* keywords or has been replaced by the empty list; while a fetch is still  *)
(* outstanding nothing is delivered and nothing is saved.                   *)
C19_JoinPoint ==
    Missed(ev) =>
        /\ Pending(ev.sources) # {} =>
              ev.outcome = "pending" /\ ev.result = UndefinedV /\ ~ev.wrote
        /\ (ev.outcome = "next" \/ ev.wrote) =>
              /\ Len(ev.sources) = Len(ev.competitors)
              /\ \A i \in 1..Len(ev.sources) : ev.sources[i].state = "done"

\* The last of two answers has arrived, one of them a failure, and the result
\* has been delivered and saved.
C19_Witness ==
    /\ ev.kind = "respond" /\ ev.outcome = "next" /\ ev.wrote
    /\ Len(ev.sources) = 2
    /\ FailedSources(ev) # {} /\ SucceededSources(ev) # {}

\* The keywords the fetch of a domain gave.
KeywordsOf(sources, domain) ==
    sources[CHOOSE i \in 1..Len(sources) : sources[i].domain = domain].keywords

\* What the fetches gave, in the order the competitors were supplied.
SuppliedData(e) ==
    [i \in 1..Len(e.competitors) |->
        [domain |-> e.competitors[i], keywords |-> KeywordsOf(e.sources, e.competitors[i])]]

PlaceOf(competitors, domain) == CHOOSE i \in 1..Len(competitors) : competitors[i] = domain

\* The rankings of every keyword name the competitors in the order supplied.
RankingsInSuppliedOrder(result, competitors) ==
    \A k \in 1..Len(result.allKeywords) :
        LET rankings == result.allKeywords[k].competitorRankings
        IN \A a \in 1..Len(rankings), b \in 1..Len(rankings) :
              a < b => PlaceOf(competitors, rankings[a].domain)
                         <= PlaceOf(competitors, rankings[b].domain)

(* C20: determinism under fetch latency.  The result of an analysis that    *)
(* missed the cache is, apart from its timestamp, the aggregate of what     *)
(* each competitor's fetch gave taken in the order the competitors were     *)
(* supplied, whatever the order in which the fetches completed: the         *)
(* rankings of each keyword, the order of the keywords, the order of equal  *)
(* opportunities and analyzedCompetitors follow the supplied order.         *)
C20_Deterministic ==
    (Missed(ev) /\ ev.outcome = "next") =>
        /\ ev.result = aggregateKeywords(ev.userDomain, ev.userKeywords, SuppliedData(ev),
                                         ev.competitors, ev.result.timestamp)
        /\ ev.result.analyzedCompetitors = ev.competitors
        /\ RankingsInSuppliedOrder(ev.result, ev.competitors)

\* The competitor supplied first answered last, both fetches gave keywords, and
\* the keyword they share names them in the order supplied.
C20_Witness ==
    /\ ev.kind = "respond" /\ ev.outcome = "next"
    /\ ev.competitors = <<"x", "y">>
    /\ ev.settled = 1
    /\ FailedSources(ev) = {}
    /\ \E k \in 1..Len(ev.result.allKeywords) :
          /\ Len(ev.result.allKeywords[k].competitorRankings) = 2
          /\ ev.result.allKeywords[k].competitorRankings[1].domain = "x"
          /\ ev.result.allKeywords[k].competitorRankings[2].domain = "y"

---------------------------------------------------------------------------
(* The fetch claims *)

(* C21: one fetch per source.  An analysis that misses the cache calls      *)
(* fetchDomainKeywords once for each competitor supplied, in their order,   *)
(* and a competitor whose fetch has failed is settled with the empty list:  *)
(* no further request is made for it within the analysis.                   *)
C21_OneFetchPerSource ==
    /\ (ev.kind = "analyze" /\ Missed(ev)) =>
          /\ ev.fetches = Len(ev.competitors)
          /\ Len(ev.sources) = Len(ev.competitors)
          /\ \A i \in 1..Len(ev.sources) : ev.sources[i].domain = ev.competitors[i]
          /\ \A i \in FailedSources(ev) : i \notin Pending(ev.sources)
    /\ ev.kind = "respond" =>
          /\ ev.fetches = 0 /\ ev.requests = 0
          /\ ev.settled \notin Pending(ev.sources)
          /\ \A i \in FailedSources(ev) : i \notin Pending(ev.sources)
          /\ \A c \in 1..Len(calls) : Pending(calls[c].sources) = Pending(ev.sources)

\* The request for the first of two competitors has failed while the request for
\* the second is still outstanding.
C21_Witness ==
    /\ ev.kind = "respond" /\ ev.settled = 1
    /\ Len(ev.sources) = 2
    /\ FailedSources(ev) = {1}
    /\ Pending(ev.sources) = {2}
    /\ Len(calls) = 1

---------------------------------------------------------------------------
(* The aggregation claims *)

\* aggregateKeywords has been applied to the drawn keywords.
Aggregated == probe.op = "aggregateKeywords"

KeywordsIn(list) == {toLowerCase(list[i].keyword) : i \in 1..Len(list)}

\* The normalized keywords of the user, and those of all the competitors.
UserSet == KeywordsIn(probe.userKeywords)
CompetitorSet ==
    UNION {KeywordsIn(probe.competitorData[i].keywords) : i \in 1..Len(probe.competitorData)}

(* C22: classification.  In every result of aggregateKeywords, a keyword of *)
(* allKeywords has isOpportunity exactly when it has no userRanking and its *)
(* competitorCount is positive, and it has an opportunityScore exactly when *)
(* isOpportunity is true.                                                   *)
C22_Classification ==
    Aggregated =>
        \A i \in 1..Len(probe.result.allKeywords) :
            LET k == probe.result.allKeywords[i]
            IN /\ k.isOpportunity <=> (~Truthy(k.userRanking) /\ k.competitorCount > 0)
               /\ (k.opportunityScore # UndefinedV) <=> k.isOpportunity

\* A result with a keyword that is an opportunity and one that is not.
C22_Witness ==
    /\ Aggregated
    /\ \E i, j \in 1..Len(probe.result.allKeywords) :
          /\ probe.result.allKeywords[i].isOpportunity
          /\ probe.result.allKeywords[i].opportunityScore # UndefinedV
          /\ ~probe.result.allKeywords[j].isOpportunity
          /\ probe.result.allKeywords[j].competitorCount > 0

NamesOf(list) == {toLowerCase(list[i].keyword) : i \in 1..Len(list)}

(* C23: partition.  In every result of aggregateKeywords, opportunities,    *)
(* shared and uniqueToUser have no keyword in common, together they hold    *)
(* the keywords of allKeywords, their lengths add up to the length of       *)
(* allKeywords, and totalKeywords is that length.                           *)
C23_Partition ==
    Aggregated =>
        LET r == probe.result
        IN /\ Range(r.opportunities) \cap Range(r.shared) = {}
           /\ Range(r.opportunities) \cap Range(r.uniqueToUser) = {}
           /\ Range(r.shared) \cap Range(r.uniqueToUser) = {}
           /\ Range(r.opportunities) \cup Range(r.shared) \cup Range(r.uniqueToUser)
                 = Range(r.allKeywords)
           /\ Len(r.allKeywords)
                 = Len(r.opportunities) + Len(r.shared) + Len(r.uniqueToUser)
           /\ r.totalKeywords = Len(r.allKeywords)

\* A result with a keyword in each of the three parts.
C23_Witness ==
    /\ Aggregated
    /\ Len(probe.result.opportunities) = 1
    /\ Len(probe.result.shared) = 1
    /\ Len(probe.result.uniqueToUser) = 1
    /\ probe.result.totalKeywords = 3

(* C24: membership follows the inputs.  With keywords compared without     *)
(* regard to case, a keyword is in opportunities exactly when a competitor  *)
(* has it and the user has not, in shared exactly when the user and a       *)
(* competitor have it, in uniqueToUser exactly when the user has it and no  *)
(* competitor has; and allKeywords holds each such keyword once.            *)
C24_Membership ==
    Aggregated =>
        LET r == probe.result
        IN /\ NamesOf(r.opportunities) = CompetitorSet \ UserSet
           /\ NamesOf(r.shared) = UserSet \cap CompetitorSet
           /\ NamesOf(r.uniqueToUser) = UserSet \ CompetitorSet
           /\ NamesOf(r.allKeywords) = UserSet \cup CompetitorSet
           /\ \A i, j \in 1..Len(r.allKeywords) :
                 toLowerCase(r.allKeywords[i].keyword) = toLowerCase(r.allKeywords[j].keyword)
                    => i = j

\* The user has "seo tools", a competitor has "SEO Tools": the keyword is shared,
\* once, while a keyword of the competitors alone is an opportunity.
C24_Witness ==
    /\ Aggregated
    /\ \E i \in 1..Len(probe.userKeywords) : probe.userKeywords[i].keyword = "seo tools"
    /\ \E c \in 1..Len(probe.competitorData) :
          /\ \E i \in 1..Len(probe.competitorData[c].keywords) :
                probe.competitorData[c].keywords[i].keyword = "SEO Tools"
          /\ \A i \in 1..Len(probe.competitorData[c].keywords) :
                probe.competitorData[c].keywords[i].keyword # "seo tools"
    /\ NamesOf(probe.result.shared) = {"seo tools"}
    /\ Len(probe.result.shared) = 1
    /\ "blog" \in NamesOf(probe.result.opportunities)

(* C25: one ranking per competitor.  In every keyword of a result,          *)
(* competitorRankings holds at most one ranking of each competitor, so that *)
(* competitorCount is the number of competitors that rank for the keyword.  *)
C25_OneRankingPerSource ==
    Aggregated =>
        \A k \in 1..Len(probe.result.allKeywords) :
            LET rankings == probe.result.allKeywords[k].competitorRankings
            IN /\ \A a, b \in 1..Len(rankings) :
                     rankings[a].domain = rankings[b].domain => a = b
               /\ probe.result.allKeywords[k].competitorCount
                     = Cardinality({rankings[a].domain : a \in 1..Len(rankings)})

\* Keywords within the data model at the ends of its ranges.
ScoredVolumes == {0, 1, 99999, 100000, 250000}
ScoredDifficulties == {0, 50, 100}
ScoredCounts == 1..6

ScoredKeywords ==
    {[searchVolume |-> v, difficulty |-> d, competitorCount |-> n] :
        v \in ScoredVolumes, d \in ScoredDifficulties, n \in ScoredCounts}

(* C26: score bounds.  For a searchVolume that is a non-negative integer    *)
(* and a difficulty that is an integer of 0..100, every keyword of          *)
(* opportunities has an integer opportunityScore of 0..100.                 *)
C26_ScoreBounds ==
    /\ \A k \in ScoredKeywords : calculateOpportunityScore(k) \in 0..100
    /\ Aggregated =>
          \A i \in 1..Len(probe.result.opportunities) :
              /\ probe.result.opportunities[i].opportunityScore.tag = "num"
              /\ probe.result.opportunities[i].opportunityScore.n \in 0..100

\* An opportunity whose searchVolume is beyond the 100000 that counts in full.
C26_Witness ==
    /\ Aggregated
    /\ \E i \in 1..Len(probe.result.opportunities) :
          /\ probe.result.opportunities[i].searchVolume = 250000
          /\ probe.result.opportunities[i].competitorCount = 2
          /\ probe.result.opportunities[i].opportunityScore = Num(88)

\* Where the keyword stands in allKeywords, which is in insertion order.
Inserted(r, k) == CHOOSE i \in 1..Len(r.allKeywords) : r.allKeywords[i] = k

\* The keywords in the order of their first occurrence: the user's list, then the
\* competitors' lists in the order supplied.
RECURSIVE FirstOccurrences(_, _)
FirstOccurrences(seen, list) ==
    IF list = <<>> THEN seen
    ELSE FirstOccurrences(
             IF \E i \in 1..Len(seen) : seen[i] = toLowerCase(Head(list).keyword)
             THEN seen ELSE Append(seen, toLowerCase(Head(list).keyword)),
             Tail(list))

InsertionOrder ==
    FirstOccurrences(<<>>, probe.userKeywords \o probe.competitorData[1].keywords
                                              \o probe.competitorData[2].keywords)

(* C27: order of the opportunities.  opportunities is in descending order   *)
(* of opportunityScore, and opportunities of equal score are in the order   *)
(* of their insertion: the user's keywords, then the competitors in the     *)
(* order supplied, each in the order of its list.                           *)
C27_OpportunityOrder ==
    Aggregated =>
        LET r == probe.result
        IN /\ \A a, b \in 1..Len(r.opportunities) :
                 a < b =>
                    /\ scoreOrZero(r.opportunities[a]) >= scoreOrZero(r.opportunities[b])
                    /\ scoreOrZero(r.opportunities[a]) = scoreOrZero(r.opportunities[b])
                          => Inserted(r, r.opportunities[a]) < Inserted(r, r.opportunities[b])
           /\ [i \in 1..Len(r.allKeywords) |-> toLowerCase(r.allKeywords[i].keyword)]
                 = InsertionOrder

\* Three opportunities: the one inserted first has the lowest score and comes
\* last, the other two have equal scores and keep the order of their insertion.
C27_Witness ==
    /\ Aggregated
    /\ Len(probe.result.opportunities) = 3
    /\ Inserted(probe.result, probe.result.opportunities[3])
          < Inserted(probe.result, probe.result.opportunities[1])
    /\ Inserted(probe.result, probe.result.opportunities[1])
          < Inserted(probe.result, probe.result.opportunities[2])
    /\ scoreOrZero(probe.result.opportunities[1]) = scoreOrZero(probe.result.opportunities[2])
    /\ scoreOrZero(probe.result.opportunities[2]) > scoreOrZero(probe.result.opportunities[3])

---------------------------------------------------------------------------
(* The refresh claim *)

\* The keywords of every competitor of the step were asked of the API.
RequestedAll(e) == e.fetches = Len(e.competitors) /\ e.requests = Len(e.competitors)

(* C28: refresh.  With API credentials stored, refreshing an analysis whose *)
(* result is shown removes the cache entry of the analysis and runs the     *)
(* analysis anew against the API: the run finds no cached result and makes  *)
(* a request for the keywords of each competitor.                           *)
C28_RefreshFetchesAnew ==
    (ev.kind = "refresh" /\ getCredentials(store) # Absent)
        => (~Truthy(ev.cached) /\ RequestedAll(ev))

---------------------------------------------------------------------------
(* The config and remove claims *)

\* The expirationDays that getConfig gives over the storage st.
ConfiguredDays(st) == getConfig(st).ret.expirationDays

\* getConfig gives the same over st and over after.
SameConfig(st, after) ==
    /\ getConfig(after).raised = getConfig(st).raised
    /\ getConfig(after).ret = getConfig(st).ret

(* C29: the config.  getConfig returns the built-in default when no config  *)
(* is stored.  After setConfig(c), getConfig returns c until the next       *)
(* setConfig, and the expirationDays of c governs every save and get that   *)
(* follows: a save without a TTL of its own writes an entry that expires    *)
(* after that many days, or writes nothing when it is 0, and a get returns  *)
(* nothing when it is 0.                                                    *)
C29_ConfigGoverns ==
    [][/\ (last'.op = "getConfig" /\ getItem(store, CONFIG_KEY) = Absent)
             => (~last'.raised /\ last'.ret = ConfigV(DefaultExpirationDays))
       /\ (last'.op = "setConfig" /\ ~last'.raised)
             => \A d \in last'.ttl :
                   ~getConfig(store').raised /\ getConfig(store').ret = ConfigV(d)
       /\ last'.op \in {"save", "get", "remove", "clearAll", "getMetadata", "getConfig",
                        "getCacheSize"}
             => SameConfig(store, store')
       /\ (last'.op = "save" /\ last'.ttl = {} /\ ~getConfig(store).raised)
             => IF ConfiguredDays(store) = 0 THEN store' = store
                ELSE last'.wrote =>
                        store'[SlotOf(last'.key)].val.expiresAt
                           = now + ConfiguredDays(store) * TicksPerDay
       /\ (last'.op = "get" /\ CachingDisabled(store)) => last'.ret = NullV]_vars

(* C30: remove.  remove(key) deletes the entry stored under key if there   *)
(* is one and does nothing, without an error, if there is none; afterwards  *)
(* get(key) and getMetadata(key) give nothing, and every other entry and    *)
(* the config are as they were.                                             *)
C30_Remove ==
    [][last'.op = "remove" =>
          /\ ~last'.raised
          /\ getItem(store', SlotOf(last'.key)) = Absent
          /\ \A s \in DOMAIN store : s # SlotOf(last'.key) => store'[s] = store[s]
          /\ SameConfig(store, store')
          /\ ~get(store', now, last'.key).raised
          /\ get(store', now, last'.key).ret = NullV
          /\ ~getMetadata(store', now, last'.key).raised
          /\ getMetadata(store', now, last'.key).ret = NullV]_vars

---------------------------------------------------------------------------
(* The scoring claims *)

\* round(0.4 * min(v / 100000 * 100, 100) + 0.4 * (100 - d) + 0.2 * min(c / 5 * 100, 100)),
\* with the three terms brought to the denominator 2500.
ScoreFormula(v, d, c) ==
    LET scaled == Min(v, 100000) + 1000 * (100 - d) + 10000 * Min(c, 5)
    IN (2 * scaled + 2500) \div 5000

(* C31: the score.  The opportunityScore of every opportunity is            *)
(* round(0.4 * min(searchVolume / 100000 * 100, 100) + 0.4 * (100 -         *)
(* difficulty) + 0.2 * min(competitorCount / 5 * 100, 100)) for the         *)
(* competitorCount the keyword has after all competitors have been merged,  *)
(* and the score does not fall when searchVolume or competitorCount grows   *)
(* nor rise when difficulty grows.                                          *)
C31_Score ==
    Aggregated =>
        \A i \in 1..Len(probe.result.opportunities) :
            LET k == probe.result.opportunities[i]
                scored(l) ==
                    calculateOpportunityScore(l)
                       = ScoreFormula(l.searchVolume, l.difficulty, l.competitorCount)
                notBelow(l) == calculateOpportunityScore(l) >= k.opportunityScore.n
                notAbove(l) == calculateOpportunityScore(l) <= k.opportunityScore.n
            IN /\ k.opportunityScore
                     = Num(ScoreFormula(k.searchVolume, k.difficulty,
                                        Len(k.competitorRankings)))
               /\ \A v \in ScoredVolumes :
                     LET l == [k EXCEPT !.searchVolume = v]
                     IN /\ scored(l)
                        /\ v >= k.searchVolume => notBelow(l)
                        /\ v <= k.searchVolume => notAbove(l)
               /\ \A c \in ScoredCounts :
                     LET l == [k EXCEPT !.competitorCount = c]
                     IN /\ scored(l)
                        /\ c >= k.competitorCount => notBelow(l)
                        /\ c <= k.competitorCount => notAbove(l)
               /\ \A d \in ScoredDifficulties :
                     LET l == [k EXCEPT !.difficulty = d]
                     IN /\ scored(l)
                        /\ d >= k.difficulty => notAbove(l)
                        /\ d <= k.difficulty => notBelow(l)

\* An opportunity that both competitors rank for, scored with the count of two.
C31_Witness ==
    /\ Aggregated
    /\ \E i \in 1..Len(probe.result.opportunities) :
          LET k == probe.result.opportunities[i]
          IN /\ k.keyword = "blog"
             /\ Len(k.competitorRankings) = 2
             /\ k.competitorRankings[1].domain = "x"
             /\ k.competitorRankings[2].domain = "y"
             /\ k.opportunityScore = Num(34)

\* The keyword map after each step of the merge: after each of the user's
\* keywords, then after each keyword of the first competitor, then of the second.
MergeSteps ==
    LET u == probe.userKeywords
        x == probe.competitorData[1]
        y == probe.competitorData[2]
        seeded == addUserKeywords(<<>>, u)
    IN {addUserKeywords(<<>>, SubSeq(u, 1, n)) : n \in 0..Len(u)}
       \cup {addCompetitorData(seeded, <<[x EXCEPT !.keywords = SubSeq(@, 1, n)]>>) :
                n \in 0..Len(x.keywords)}
       \cup {addCompetitorData(seeded, <<x, [y EXCEPT !.keywords = SubSeq(@, 1, n)]>>) :
                n \in 0..Len(y.keywords)}

(* C32: the count is the number of rankings.  In every keyword of the map   *)
(* at every step of the merge, and in every keyword of the result,          *)
(* competitorCount is the length of competitorRankings.                     *)
C32_CountIsLength ==
    Aggregated =>
        /\ \A m \in MergeSteps : \A i \in 1..Len(m) :
              m[i].v.competitorCount = Len(m[i].v.competitorRankings)
        /\ \A i \in 1..Len(probe.result.allKeywords) :
              probe.result.allKeywords[i].competitorCount
                 = Len(probe.result.allKeywords[i].competitorRankings)

\* A result with a keyword of the user that both competitors rank for, and one
\* that no competitor ranks for.
C32_Witness ==
    /\ Aggregated
    /\ \E i, j \in 1..Len(probe.result.allKeywords) :
          /\ Truthy(probe.result.allKeywords[i].userRanking)
          /\ probe.result.allKeywords[i].competitorCount = 2
          /\ Len(probe.result.allKeywords[i].competitorRankings) = 2
          /\ probe.result.allKeywords[j].competitorCount = 0
          /\ probe.result.allKeywords[j].competitorRankings = <<>>

---------------------------------------------------------------------------
(* The quota and config claims *)

\* The save reaches its write, and the write fails on the quota.
WriteFails(st, q, key, data, ttl) ==
    /\ ~getConfig(st).raised
    /\ IF ttl = {} THEN getConfig(st).ret.expirationDays # 0 ELSE ttl # {0}
    /\ ~JSON_stringify(EntryJ(key, data, 0, 0)).raised
    /\ setItem(st, q, SlotOf(key), writeEntry(key, data, 0, 0)).raised

(* C33: a failed save keeps the old entry.  A save whose write fails on the *)
(* quota does not alter the entry stored under its key before: the entry is *)
(* as it was or has been evicted, and get(key) afterwards returns the old   *)
(* value or nothing, never the new value.                                   *)
C33_FailedSaveKeepsOld ==
    [][(last'.op = "save"
        /\ WriteFails(store, quota, last'.key, last'.data, last'.ttl))
       => /\ store'[SlotOf(last'.key)] \in {store[SlotOf(last'.key)], Absent}
          /\ get(store', now, last'.key).ret \in {get(store, now, last'.key).ret, NullV}
          /\ get(store', now, last'.key).ret # last'.data]_vars

\* The save of a larger value over key1 has failed, the eviction has run, and the
\* old value is still read.
C33_Witness ==
    /\ last.op = "save" /\ last.key = "key1" /\ last.data = LargeData
    /\ last.evicted /\ ~last.wrote /\ ~last.raised
    /\ get(store, now, "key1").ret = Str("value")

(* C34: the config changes only through setConfig.  For every key k,       *)
(* save(k, v) and remove(k) leave what getConfig returns as it was: no key  *)
(* of an entry maps onto the place in the storage that holds the config.    *)
C34_ConfigOnlyBySetConfig ==
    [][last'.op \in {"save", "remove"} =>
          /\ SlotOf(last'.key) # CONFIG_KEY
          /\ SameConfig(store, store')]_vars

(* The claims on the keywords of the subject and on failed sources *)

(* C35: the cache key does not depend on the keywords of the subject.       *)
(* While the result of an analysis is in the cache, an analysis of the      *)
(* same subject and the same set of sources that is given another list of   *)
(* subject keywords delivers that same stored result: it fetches nothing    *)
(* and does not aggregate against the list it was given.                    *)
C35_KeywordsNotInKey ==
    [][(Delivered(ev) /\ Stored(ev) /\ CachingEnabled(store) /\ ev'.kind = "analyze"
        /\ SameAnalysis(ev, ev') /\ now' = now
        /\ ev'.userKeywords # ev.userKeywords)
       => (/\ getCacheKey(ev'.userDomain, ev'.competitors)
                = getCacheKey(ev.userDomain, ev.competitors)
           /\ ev'.outcome = "next"
           /\ ev'.cached = ev.result
           /\ ev'.result = ev.result
           /\ ev'.fetches = 0 /\ ev'.requests = 0)]_vars

\* An analysis given the list of one keyword is served the stored result, which
\* holds a keyword that only the other list of the subject has.
C35_Witness ==
    /\ ev.kind = "analyze" /\ ev.outcome = "next" /\ ev.fetches = 0
    /\ Truthy(ev.cached) /\ ev.result = ev.cached
    /\ ev.result.tag = "result"
    /\ Len(ev.userKeywords) = 1
    /\ HasKeyword(ev.result, "only mine")

\* The live entry of the key holds a result to which a source it names gave nothing.
StoredIncomplete(st, t, userDomain, competitors) ==
    LET cached == get(st, t, getCacheKey(userDomain, competitors))
    IN /\ ~cached.raised
       /\ Truthy(cached.ret)
       /\ cached.ret.tag = "result"
       /\ \E i \in 1..Len(competitors) : ~Contributes(cached.ret, competitors[i])

(* C36: a result built while the fetch of a source failed is saved under    *)
(* its key like any other result: with caching enabled and room in the      *)
(* storage the join writes it, and get returns it.  While that entry is     *)
(* live, an analysis of the same subject and the same set of sources        *)
(* delivers it, calls fetchDomainKeywords for no source, sends no request   *)
(* and leaves nothing in flight.                                            *)
C36_FailedResultCached ==
    [][/\ (/\ Missed(ev') /\ ev'.outcome = "next" /\ FailedSources(ev') # {}
           /\ CachingEnabled(store)
           /\ RoomOf(store, DOMAIN store) + 2 <= quota)
          => (/\ ev'.wrote
              /\ get(store', now, getCacheKey(ev'.userDomain, ev'.competitors)).ret
                   = ev'.result)
       /\ (/\ ev'.kind = "analyze"
           /\ StoredIncomplete(store, now, ev'.userDomain, ev'.competitors))
          => (/\ ev'.outcome = "next"
              /\ ev'.result
                   = get(store, now, getCacheKey(ev'.userDomain, ev'.competitors)).ret
              /\ ev'.fetches = 0 /\ ev'.requests = 0
              /\ calls' = calls)]_vars

\* An analysis of two sources is served the stored result of an analysis in which
\* the fetch of one source failed and the other gave its keywords.
C36_Witness ==
    /\ ev.kind = "analyze" /\ ev.outcome = "next" /\ ev.fetches = 0
    /\ Truthy(ev.cached) /\ ev.result = ev.cached
    /\ ev.result.tag = "result"
    /\ Len(ev.competitors) = 2
    /\ \E i, j \in 1..2 : /\ ~Contributes(ev.result, ev.competitors[i])
                          /\ Contributes(ev.result, ev.competitors[j])
    /\ calls = <<>>

(* The claim on analyses that run at the same time *)

InFlight(userDomain, competitors) ==
    \E c \in 1..Len(calls) :
        /\ calls[c].userDomain = userDomain
        /\ Range(calls[c].competitors) = Range(competitors)

KeySlot(e) == CACHE_PREFIX \o getCacheKey(e.userDomain, e.competitors)

\* A step that leaves a fetch of its call outstanding writes nothing under the key.
NoWriteWhilePending ==
    (ev'.kind \in {"analyze", "respond"} /\ ev'.outcome = "pending")
    => store'[KeySlot(ev')] \in {store[KeySlot(ev')], Absent}

\* An analysis that starts while a call for its key is in flight and has written
\* nothing misses the cache and makes a fetch of its own for every source.
SecondMisses ==
    (/\ ev'.kind = "analyze"
     /\ InFlight(ev'.userDomain, ev'.competitors)
     /\ store[KeySlot(ev')] = Absent)
    => (/\ ~Truthy(ev'.cached)
        /\ ev'.fetches = Len(ev'.competitors)
        /\ Len(ev'.sources) = Len(ev'.competitors)
        /\ ev'.outcome = "pending" => Len(calls') = Len(calls) + 1)

(* C37: an analysis writes its cache entry only at its join.  A step that   *)
(* leaves a fetch of the call outstanding writes nothing under its key; an  *)
(* analysis of the same subject and the same set of sources that starts     *)
(* while a call is in flight, with no entry under the key, misses the cache *)
(* and calls fetchDomainKeywords for every source of its own; and after a   *)
(* call has reached its join, with caching enabled, the entry under the key *)
(* is the result of that call, whatever a call that joined before it had    *)
(* stored.                                                                  *)
C37_LastJoinStored ==
    [][/\ NoWriteWhilePending
       /\ SecondMisses
       /\ (Missed(ev') /\ ev'.outcome = "next" /\ CachingEnabled(store))
          => get(store', now, getCacheKey(ev'.userDomain, ev'.competitors)).ret
               = ev'.result]_vars

(* C37, amended: the same, where the join of a call stores its result over  *)
(* that of an earlier join when the storage has room for what the step      *)
(* writes (a save that fails on the quota stores nothing).                  *)
C37_WriteAtJoin ==
    [][/\ NoWriteWhilePending
       /\ SecondMisses
       /\ (/\ Missed(ev') /\ ev'.outcome = "next" /\ CachingEnabled(store)
           /\ RoomOf(store, DOMAIN store \ {KeySlot(ev')}) + 2 <= quota)
          => (/\ ev'.wrote
              /\ get(store', now, getCacheKey(ev'.userDomain, ev'.competitors)).ret
                   = ev'.result)
       /\ (Missed(ev') /\ ev'.outcome = "next" /\ ev'.wrote)
          => get(store', now, getCacheKey(ev'.userDomain, ev'.competitors)).ret
               = ev'.result]_vars

\* A second analysis of the same sources, given in the other order, has started
\* while the first waits for its answers: it missed the cache and both are in flight
\* with a request of their own for every source.
C37_Witness ==
    /\ ev.kind = "analyze" /\ ~Truthy(ev.cached)
    /\ ev.fetches = 2 /\ ev.requests = 2
    /\ Len(calls) = 2
    /\ calls[1].userDomain = calls[2].userDomain
    /\ calls[1].competitors # calls[2].competitors
    /\ Range(calls[1].competitors) = Range(calls[2].competitors)
    /\ \A c \in 1..2 : Pending(calls[c].sources) = {1, 2}
    /\ store[KeySlot(ev)] = Absent

(* The claim on the expiry of stored entries *)

\* The days of life save gives an entry: the ttl of the call, or the configured days.
EffectiveDays(st, ttl) ==
    IF ttl = {} THEN ConfiguredDays(st) ELSE CHOOSE d \in ttl : TRUE

(* C38: the expiry of an entry is fixed when it is saved, as                *)
(* expiresAt = timestamp + effective TTL in days, and nothing changes it    *)
(* afterwards: setConfig to another number of days, zero excepted, leaves   *)
(* every stored entry as it was, and get judges an entry expired exactly    *)
(* when its stored expiresAt is before the present time.                    *)
C38_ExpiryFixedAtSave ==
    [][/\ (last'.op = "save" /\ last'.wrote)
          => (/\ store'[SlotOf(last'.key)].val.timestamp = now
              /\ store'[SlotOf(last'.key)].val.expiresAt
                   = now + EffectiveDays(store, last'.ttl) * TicksPerDay)
       /\ (last'.op = "setConfig" /\ last'.ttl # {0})
          => \A k \in Keys :
                WellFormed(store[SlotOf(k)]) => store'[SlotOf(k)] = store[SlotOf(k)]
       /\ \A k \in Keys :
             (/\ last'.op = "get" /\ last'.key = k
              /\ CachingEnabled(store)
              /\ WellFormed(store[SlotOf(k)]))
             => IF store[SlotOf(k)].val.expiresAt < now
                THEN last'.ret = NullV
                ELSE last'.ret = store[SlotOf(k)].val.data]_vars

====
